---- MODULE Spec2Model ----
(***************************************************************************)
(* Fur-Img-API_V2: the sliding-window rate limiter with temporary bans and *)
(* the cache layer (Redis client, in-memory caches, legacy coordinator).   *)
(*                                                                         *)
(* Time is the value Date.now() returns.  A synchronous handler runs to    *)
(* completion at one instant: every Date.now() it evaluates reads the same *)
(* value of the clock `now`; the clock moves between handlers (Tick).      *)
(***************************************************************************)
EXTENDS Integers, Sequences, FiniteSets, TLC

(***************************************************************************)
(* Bounds of the model.                                                    *)
(***************************************************************************)
MaxTime == 4

\* rate_limit.* of the configuration, scaled down to clock ticks
windowSize == 3
limit == 2
maxClients == 2
banDuration == 2

Clients == {"c1", "c2", "c3"}

\* rate_limit.enabled (default true); the limiter is modelled switched on
enabled == TRUE

VARIABLES
    now,        \* Date.now()
    variant,    \* which limiter serves: "class" (RequestLimiter) or "legacy" (api.js)
    ban_duration, \* rate_limit.ban_duration of the configuration the limiter was built with
    admitted,   \* client -> the instants of its admitted requests newer than now - windowSize
    windows,    \* RequestLimiter.windows: client -> request instants
    banList,    \* RequestLimiter.banList: client -> {startTime, endTime, reason}
    last,       \* the last request handled, with what held just before it
    owed,       \* client -> endTime of a ban issued and not yet outlived by a request (0: none)
    turnedAway  \* the clients rejected for want of capacity and not admitted since

rlVars == <<variant, ban_duration, admitted, windows, banList, last, owed, turnedAway>>

VARIABLES
    remoteUp,   \* the Redis server accepts connections and answers
    redis       \* the Redis database: key -> [val, exp]

envVars == <<remoteUp, redis>>

VARIABLES
    cm,         \* the CacheManager of cache-manager.js (its fields and its client's socket)
    cmLast,     \* the last cache call: what was asked and what came back
    cleared,    \* the keys set before the last clear() and not set since
    manualOk,   \* a manual reconnect restored the connection, which has held since
    written     \* per key, the value of the latest set() that returned ("none" before any)

cmVars == <<cm, cmLast, cleared, manualOk, written>>

VARIABLES
    impl,       \* which cache runs: "factory", "simple", "memory", "map" or "coordinator"
    rc,         \* the RedisCache made by CacheFactory.createCache (fields, client, timers)
    lru,        \* the LRUCache inside MemoryCache, least recently used first
    simple,     \* the SimpleCacheManager's map: key -> [val, exp]
    call,       \* the last call on the cache and its result
    lastSet     \* the latest set() made while the server is away, until a del or clear

ifVars == <<impl, rc, lru, simple, call, lastSet>>

VARIABLES
    exhausted,  \* the client has used up its retries and no manual reconnect has followed
    pending,    \* the cache call that is awaiting the reply of its Redis command
    served      \* the last request ApiService handled: its inputs, the order of what it did

cacheVars == <<envVars, cmVars, ifVars, exhausted, pending, served>>
vars == <<now, rlVars, cacheVars>>

(***************************************************************************)
(* Map helpers (Map.set, Map.delete) and Array.prototype.filter.           *)
(***************************************************************************)
MapSet(m, k, v) == [d \in (DOMAIN m) \cup {k} |-> IF d = k THEN v ELSE m[d]]

MapDelete(m, k) == [d \in (DOMAIN m) \ {k} |-> m[d]]

EmptyMap == [d \in {} |-> 0]

\* requests.filter(time => time > windowStart)
FilterRecent(requests, windowStart) == SelectSeq(requests, LAMBDA time : time > windowStart)

Limiter(w, b) == [windows |-> w, banList |-> b]

(***************************************************************************)
(* RequestLimiter.isBanned: an expired ban is deleted together with the    *)
(* client's window.                                                        *)
(***************************************************************************)
isBanned_strict(L, clientIP, t) ==
    IF clientIP \notin DOMAIN L.banList
    THEN [st |-> L, ret |-> FALSE]
    ELSE IF t > L.banList[clientIP].endTime
         THEN [st |-> Limiter(MapDelete(L.windows, clientIP), MapDelete(L.banList, clientIP)),
               ret |-> FALSE]
         ELSE [st |-> L, ret |-> TRUE]

isBanned(L, clientIP, t) ==
    IF clientIP \notin DOMAIN L.banList
    THEN [st |-> L, ret |-> FALSE]
    ELSE IF t >= L.banList[clientIP].endTime
         THEN [st |-> Limiter(MapDelete(L.windows, clientIP), MapDelete(L.banList, clientIP)),
               ret |-> FALSE]
         ELSE [st |-> L, ret |-> TRUE]

(***************************************************************************)
(* RequestLimiter.getBanStatus                                             *)
(***************************************************************************)
getBanStatus(L, clientIP, t) ==
    IF clientIP \notin DOMAIN L.banList
    THEN [st |-> L, ret |-> [kind |-> "null"]]
    ELSE IF t >= L.banList[clientIP].endTime
         THEN [st |-> Limiter(MapDelete(L.windows, clientIP), MapDelete(L.banList, clientIP)),
               ret |-> [kind |-> "null"]]
         ELSE [st |-> L,
               ret |-> [kind |-> "status", banned |-> TRUE,
                        remainingMs |-> L.banList[clientIP].endTime - t,
                        banEndTime |-> L.banList[clientIP].endTime,
                        reason |-> L.banList[clientIP].reason]]

(***************************************************************************)
(* RequestLimiter.banClient: an existing record is left as it is.          *)
(***************************************************************************)
banClient_restart(L, clientIP, t) ==
    Limiter(L.windows,
            MapSet(L.banList, clientIP,
                   [startTime |-> t, endTime |-> t + ban_duration + 1,
                    reason |-> "Rate limit exceeded"]))

\* banClient that would ban for one tick less than configured
banClient_short(L, clientIP, t) ==
    IF clientIP \in DOMAIN L.banList
    THEN L
    ELSE Limiter(L.windows,
                 MapSet(L.banList, clientIP,
                        [startTime |-> t, endTime |-> t + ban_duration - 1,
                         reason |-> "Rate limit exceeded"]))

banClient(L, clientIP, t) ==
    IF clientIP \in DOMAIN L.banList
    THEN L
    ELSE Limiter(L.windows,
                 MapSet(L.banList, clientIP,
                        [startTime |-> t, endTime |-> t + ban_duration,
                         reason |-> "Rate limit exceeded"]))

(***************************************************************************)
(* RequestLimiter.cleanupOldRequests: every window is filtered; a window   *)
(* left empty is deleted.                                                  *)
(***************************************************************************)
\* cleanupOldRequests that would also drop the oldest instant still inside the window
cleanupOldRequests_harsh(L, t) ==
    LET windowStart == t - windowSize + 1
        keep == {ip \in DOMAIN L.windows : FilterRecent(L.windows[ip], windowStart) # <<>>}
    IN  Limiter([ip \in keep |-> FilterRecent(L.windows[ip], windowStart)], L.banList)

cleanupOldRequests(L, t) ==
    LET windowStart == t - windowSize
        keep == {ip \in DOMAIN L.windows : FilterRecent(L.windows[ip], windowStart) # <<>>}
    IN  Limiter([ip \in keep |-> FilterRecent(L.windows[ip], windowStart)], L.banList)

\* Math.max(...requests) of a non-empty array
MaxOf(requests) ==
    CHOOSE m \in {requests[i] : i \in DOMAIN requests} :
        \A i \in DOMAIN requests : requests[i] <= m

(***************************************************************************)
(* RequestLimiter.isAllowed (src/api/RequestLimiter): the ban check, the   *)
(* eviction of old instants of every client, the capacity check for a new  *)
(* client, the limit check that bans, and the recording of the request.    *)
(* `why` is the log line the branch writes.                                *)
(***************************************************************************)
isAllowed_rebans(L, clientIP, t) ==
    LET b == isBanned(L, clientIP, t) IN
    IF b.ret
    THEN [st |-> banClient_restart(b.st, clientIP, t), ret |-> FALSE, why |-> "banned"]
    ELSE LET L1 == cleanupOldRequests(b.st, t)
             known == clientIP \in DOMAIN L1.windows
             requests == FilterRecent(IF known THEN L1.windows[clientIP] ELSE <<>>, t - windowSize)
         IN  IF ~known /\ Cardinality(DOMAIN L1.windows) >= maxClients
             THEN [st |-> L1, ret |-> FALSE, why |-> "maxclients"]
             ELSE IF Len(requests) >= limit
                  THEN [st |-> banClient(Limiter(MapDelete(L1.windows, clientIP), L1.banList),
                                         clientIP, t),
                        ret |-> FALSE, why |-> "limit"]
                  ELSE [st |-> Limiter(MapSet(L1.windows, clientIP, Append(requests, t)),
                                       L1.banList),
                        ret |-> TRUE, why |-> "ok"]

isAllowed_offByOne(L, clientIP, t) ==
    LET b == isBanned(L, clientIP, t) IN
    IF b.ret
    THEN [st |-> b.st, ret |-> FALSE, why |-> "banned"]
    ELSE LET L1 == cleanupOldRequests(b.st, t)
             known == clientIP \in DOMAIN L1.windows
             requests == FilterRecent(IF known THEN L1.windows[clientIP] ELSE <<>>, t - windowSize)
         IN  IF ~known /\ Cardinality(DOMAIN L1.windows) >= maxClients
             THEN [st |-> L1, ret |-> FALSE, why |-> "maxclients"]
             ELSE IF Len(requests) > limit
                  THEN [st |-> banClient(Limiter(MapDelete(L1.windows, clientIP), L1.banList),
                                         clientIP, t),
                        ret |-> FALSE, why |-> "limit"]
                  ELSE [st |-> Limiter(MapSet(L1.windows, clientIP, Append(requests, t)),
                                       L1.banList),
                        ret |-> TRUE, why |-> "ok"]

isAllowed_bansNewcomer(L, clientIP, t) ==
    LET b == isBanned(L, clientIP, t) IN
    IF b.ret
    THEN [st |-> b.st, ret |-> FALSE, why |-> "banned"]
    ELSE LET L1 == cleanupOldRequests(b.st, t)
             known == clientIP \in DOMAIN L1.windows
             requests == FilterRecent(IF known THEN L1.windows[clientIP] ELSE <<>>, t - windowSize)
         IN  IF ~known /\ Cardinality(DOMAIN L1.windows) >= maxClients
             THEN [st |-> banClient(L1, clientIP, t), ret |-> FALSE, why |-> "maxclients"]
             ELSE IF Len(requests) >= limit
                  THEN [st |-> banClient(Limiter(MapDelete(L1.windows, clientIP), L1.banList),
                                         clientIP, t),
                        ret |-> FALSE, why |-> "limit"]
                  ELSE [st |-> Limiter(MapSet(L1.windows, clientIP, Append(requests, t)),
                                       L1.banList),
                        ret |-> TRUE, why |-> "ok"]

\* isAllowed that would ban without deleting the client's window
isAllowed_keepsWindow(L, clientIP, t) ==
    IF ~enabled
    THEN [st |-> L, ret |-> TRUE, why |-> "ok"]
    ELSE
    LET b == isBanned(L, clientIP, t) IN
    IF b.ret
    THEN [st |-> getBanStatus(b.st, clientIP, t).st, ret |-> FALSE, why |-> "banned"]
    ELSE LET L1 == cleanupOldRequests(b.st, t)
             known == clientIP \in DOMAIN L1.windows
             requests == FilterRecent(IF known THEN L1.windows[clientIP] ELSE <<>>, t - windowSize)
         IN  IF ~known /\ Cardinality(DOMAIN L1.windows) >= maxClients
             THEN [st |-> L1, ret |-> FALSE, why |-> "maxclients"]
             ELSE IF Len(requests) >= limit
                  THEN [st |-> banClient(Limiter(L1.windows, L1.banList),
                                         clientIP, t),
                        ret |-> FALSE, why |-> "limit"]
                  ELSE [st |-> Limiter(MapSet(L1.windows, clientIP, Append(requests, t)),
                                       L1.banList),
                        ret |-> TRUE, why |-> "ok"]

\* isAllowed that would refuse a new client only above maxClients
isAllowed_overfull(L, clientIP, t) ==
    IF ~enabled
    THEN [st |-> L, ret |-> TRUE, why |-> "ok"]
    ELSE
    LET b == isBanned(L, clientIP, t) IN
    IF b.ret
    THEN [st |-> getBanStatus(b.st, clientIP, t).st, ret |-> FALSE, why |-> "banned"]
    ELSE LET L1 == cleanupOldRequests(b.st, t)
             known == clientIP \in DOMAIN L1.windows
             requests == FilterRecent(IF known THEN L1.windows[clientIP] ELSE <<>>, t - windowSize)
         IN  IF ~known /\ Cardinality(DOMAIN L1.windows) > maxClients
             THEN [st |-> L1, ret |-> FALSE, why |-> "maxclients"]
             ELSE IF Len(requests) >= limit
                  THEN [st |-> banClient(Limiter(MapDelete(L1.windows, clientIP), L1.banList),
                                         clientIP, t),
                        ret |-> FALSE, why |-> "limit"]
                  ELSE [st |-> Limiter(MapSet(L1.windows, clientIP, Append(requests, t)),
                                       L1.banList),
                        ret |-> TRUE, why |-> "ok"]

isAllowed(L, clientIP, t) ==
    IF ~enabled
    THEN [st |-> L, ret |-> TRUE, why |-> "ok"]
    ELSE
    LET b == isBanned(L, clientIP, t) IN
    IF b.ret
    THEN [st |-> getBanStatus(b.st, clientIP, t).st, ret |-> FALSE, why |-> "banned"]
    ELSE LET L1 == cleanupOldRequests(b.st, t)
             known == clientIP \in DOMAIN L1.windows
             requests == FilterRecent(IF known THEN L1.windows[clientIP] ELSE <<>>, t - windowSize)
         IN  IF ~known /\ Cardinality(DOMAIN L1.windows) >= maxClients
             THEN [st |-> L1, ret |-> FALSE, why |-> "maxclients"]
             ELSE IF Len(requests) >= limit
                  THEN [st |-> banClient(Limiter(MapDelete(L1.windows, clientIP), L1.banList),
                                         clientIP, t),
                        ret |-> FALSE, why |-> "limit"]
                  ELSE [st |-> Limiter(MapSet(L1.windows, clientIP, Append(requests, t)),
                                       L1.banList),
                        ret |-> TRUE, why |-> "ok"]

(***************************************************************************)
(* RequestLimiter.cleanup (the periodic sweep): old instants, expired bans *)
(* with their windows, then the eviction of the least recently active      *)
(* clients above maxClients.  The sort that picks them is stable on the    *)
(* map's insertion order, which the model does not keep: every choice of   *)
(* the clients with the oldest last instant is an outcome.                 *)
(***************************************************************************)
\* cleanup that would keep a ban until after its endTime
cleanup_strict(L, t) ==
    LET L1 == cleanupOldRequests(L, t)
        expired == {ip \in DOMAIN L1.banList : t > L1.banList[ip].endTime}
        w2 == [ip \in (DOMAIN L1.windows) \ expired |-> L1.windows[ip]]
        b2 == [ip \in (DOMAIN L1.banList) \ expired |-> L1.banList[ip]]
    IN  IF Cardinality(DOMAIN w2) > maxClients
        THEN {Limiter([ip \in kept |-> w2[ip]], b2) :
                kept \in {K \in SUBSET DOMAIN w2 :
                            /\ Cardinality(K) = maxClients
                            /\ \A k \in K, d \in (DOMAIN w2) \ K :
                                   MaxOf(w2[k]) >= MaxOf(w2[d])}}
        ELSE {Limiter(w2, b2)}

cleanup(L, t) ==
    LET L1 == cleanupOldRequests(L, t)
        expired == {ip \in DOMAIN L1.banList : t >= L1.banList[ip].endTime}
        w2 == [ip \in (DOMAIN L1.windows) \ expired |-> L1.windows[ip]]
        b2 == [ip \in (DOMAIN L1.banList) \ expired |-> L1.banList[ip]]
    IN  IF Cardinality(DOMAIN w2) > maxClients
        THEN {Limiter([ip \in kept |-> w2[ip]], b2) :
                kept \in {K \in SUBSET DOMAIN w2 :
                            /\ Cardinality(K) = maxClients
                            /\ \A k \in K, d \in (DOMAIN w2) \ K :
                                   MaxOf(w2[k]) >= MaxOf(w2[d])}}
        ELSE {Limiter(w2, b2)}

(***************************************************************************)
(* requestLimiter.isAllowed of api.js: the ban check comes first, old      *)
(* instants of the other clients are evicted only through cleanup(), which *)
(* runs here when more than maxClients clients are tracked.                *)
(***************************************************************************)
\* isAllowed of api.js without its filter of the client's own old instants
isAllowedLegacy_unfiltered(L, clientIP, t) ==
    LET b == isBanned(L, clientIP, t) IN
    IF b.ret
    THEN {[st |-> getBanStatus(b.st, clientIP, t).st, ret |-> FALSE, why |-> "banned"]}
    ELSE IF ~enabled
    THEN {[st |-> b.st, ret |-> TRUE, why |-> "ok"]}
    ELSE
      { LET known == clientIP \in DOMAIN L1.windows
            requests == IF known THEN L1.windows[clientIP] ELSE <<>>
        IN  IF ~known /\ Cardinality(DOMAIN L1.windows) >= maxClients
            THEN [st |-> L1, ret |-> FALSE, why |-> "maxclients"]
            ELSE IF Len(requests) >= limit
                 THEN [st |-> banClient(Limiter(MapDelete(L1.windows, clientIP), L1.banList),
                                        clientIP, t),
                       ret |-> FALSE, why |-> "limit"]
                 ELSE [st |-> Limiter(MapSet(L1.windows, clientIP, Append(requests, t)),
                                      L1.banList),
                       ret |-> TRUE, why |-> "ok"]
        : L1 \in (IF Cardinality(DOMAIN b.st.windows) > maxClients
                  THEN cleanup(b.st, t) ELSE {b.st}) }

isAllowedLegacy(L, clientIP, t) ==
    LET b == isBanned(L, clientIP, t) IN
    IF b.ret
    THEN {[st |-> getBanStatus(b.st, clientIP, t).st, ret |-> FALSE, why |-> "banned"]}
    ELSE IF ~enabled
    THEN {[st |-> b.st, ret |-> TRUE, why |-> "ok"]}
    ELSE
      { LET known == clientIP \in DOMAIN L1.windows
            requests == FilterRecent(IF known THEN L1.windows[clientIP] ELSE <<>>, t - windowSize)
        IN  IF ~known /\ Cardinality(DOMAIN L1.windows) >= maxClients
            THEN [st |-> L1, ret |-> FALSE, why |-> "maxclients"]
            ELSE IF Len(requests) >= limit
                 THEN [st |-> banClient(Limiter(MapDelete(L1.windows, clientIP), L1.banList),
                                        clientIP, t),
                       ret |-> FALSE, why |-> "limit"]
                 ELSE [st |-> Limiter(MapSet(L1.windows, clientIP, Append(requests, t)),
                                      L1.banList),
                       ret |-> TRUE, why |-> "ok"]
        : L1 \in (IF Cardinality(DOMAIN b.st.windows) > maxClients
                  THEN cleanup(b.st, t) ELSE {b.st}) }

(***************************************************************************)
(* RequestLimiter.getStatus: the ban status, else null for a client with   *)
(* no window, else the window's figures.  Math.max() of no instants is     *)
(* -Infinity.                                                              *)
(***************************************************************************)
getStatus(L, clientIP, t) ==
    LET g == getBanStatus(L, clientIP, t) IN
    IF g.ret.kind # "null"
    THEN g
    ELSE IF clientIP \notin DOMAIN g.st.windows
         THEN [st |-> g.st, ret |-> [kind |-> "null"]]
         ELSE LET activeRequests == FilterRecent(g.st.windows[clientIP], t - windowSize)
              IN  [st |-> g.st,
                   ret |-> [kind |-> "status", banned |-> FALSE,
                            requests |-> Len(activeRequests),
                            remaining |-> IF limit > Len(activeRequests)
                                          THEN limit - Len(activeRequests) ELSE 0,
                            resetMs |-> IF activeRequests = <<>> THEN "-Infinity"
                                        ELSE ToString(MaxOf(activeRequests) + windowSize - t)]]

(***************************************************************************)
(* ApiService.handleApiRequest, lines 594-611: the rejection is built from *)
(* getStatus(clientIP); reading status.banned of null is a TypeError.      *)
(***************************************************************************)
rejection(status) ==
    IF status.kind = "null" THEN "TypeError"
    ELSE IF status.banned THEN "403" ELSE "429"

(***************************************************************************)
(* What holds of a client just before a request, stated on the tables and  *)
(* not through the limiter's code.                                         *)
(***************************************************************************)
ActiveBan(c) == c \in DOMAIN banList /\ now < banList[c].endTime

RecentCount(c) ==
    IF c \in DOMAIN windows /\ ~(c \in DOMAIN banList /\ now >= banList[c].endTime)
    THEN Len(FilterRecent(windows[c], now - windowSize))
    ELSE 0

\* the clients tracked once the request has done its own lazy eviction
Tracked(c) ==
    LET held == (DOMAIN windows) \
                (IF c \in DOMAIN banList /\ now >= banList[c].endTime THEN {c} ELSE {})
    IN  IF variant = "class"
        THEN {d \in held : FilterRecent(windows[d], now - windowSize) # <<>>}
        ELSE held

NoRequest ==
    [client |-> "none", at |-> 0, ret |-> TRUE, why |-> "none", response |-> "none",
     preCount |-> 0, preActiveBan |-> FALSE, preFull |-> FALSE, preOwed |-> 0,
     preTurnedAway |-> FALSE]

(***************************************************************************)
(* The state after construction: empty tables.                             *)
(***************************************************************************)
LimiterInit ==
    /\ variant \in {"class", "legacy"}
    /\ ban_duration = banDuration
    /\ admitted = [c \in Clients |-> <<>>]
    /\ windows = EmptyMap
    /\ banList = EmptyMap
    /\ last = NoRequest
    /\ owed = [c \in Clients |-> 0]
    /\ turnedAway = {}

(***************************************************************************)
(* handleApiRequest for a request of client c at the instant `now`.        *)
(***************************************************************************)
HandleApiRequest(c) ==
    \E r \in (IF variant = "class"
              THEN {isAllowed(Limiter(windows, banList), c, now)}
              ELSE isAllowedLegacy(Limiter(windows, banList), c, now)) :
        LET g == getStatus(r.st, c, now)
            after == IF r.ret THEN r.st ELSE g.st
        IN  /\ windows' = after.windows
            /\ banList' = after.banList
            /\ last' = [client |-> c, at |-> now, ret |-> r.ret, why |-> r.why,
                        response |-> IF r.ret THEN "pass" ELSE rejection(g.ret),
                        preCount |-> RecentCount(c),
                        preActiveBan |-> ActiveBan(c),
                        preFull |-> (c \notin Tracked(c)
                                     /\ Cardinality(Tracked(c)) >= maxClients),
                        preOwed |-> owed[c],
                        preTurnedAway |-> c \in turnedAway]
            /\ turnedAway' = IF r.why = "maxclients" THEN turnedAway \cup {c}
                             ELSE IF r.ret THEN turnedAway \ {c} ELSE turnedAway
            /\ owed' = [owed EXCEPT ![c] =
                          IF r.why = "limit" /\ c \in DOMAIN after.banList
                          THEN after.banList[c].endTime
                          ELSE IF owed[c] > 0 /\ now >= owed[c] THEN 0 ELSE owed[c]]
            /\ UNCHANGED <<now, variant, ban_duration, cacheVars>>

(***************************************************************************)
(* The cleanup interval timer fires.                                       *)
(***************************************************************************)
Sweep ==
    \E L \in cleanup(Limiter(windows, banList), now) :
        /\ windows' = L.windows
        /\ banList' = L.banList
        /\ last' = NoRequest
        /\ UNCHANGED <<now, variant, ban_duration, owed, turnedAway, cacheVars>>

Tick ==
    /\ now < MaxTime
    /\ now' = now + 1
    /\ last' = NoRequest
    /\ UNCHANGED <<variant, ban_duration, windows, banList, owed, turnedAway, cacheVars>>

LimiterNext ==
    \/ (\E c \in Clients : HandleApiRequest(c)) /\ UNCHANGED admitted
    \/ Sweep /\ UNCHANGED admitted
    \/ Tick /\ UNCHANGED admitted

(***************************************************************************)
(* The same limiter built with ban_duration = window_size, and the record  *)
(* of what it admitted: admitted[c] lists the instants of c's admitted     *)
(* requests that lie in (now - windowSize, now].                           *)
(***************************************************************************)
Recorded(c) ==
    IF last'.ret THEN [admitted EXCEPT ![c] = Append(@, now)] ELSE admitted

StillRecent(t) ==
    [c \in Clients |-> FilterRecent(admitted[c], t - windowSize)]

\* the clients that send requests to the limiter under observation
SlidingClients == {"c1", "c2"}

SlidingNext ==
    \/ \E c \in SlidingClients : HandleApiRequest(c) /\ admitted' = Recorded(c)
    \/ Sweep /\ UNCHANGED admitted
    \/ Tick /\ admitted' = StillRecent(now')


(***************************************************************************)
(*                     The cache layer: configuration                      *)
(*                                                                         *)
(* In the cache specifications the clock counts seconds: an entry set at   *)
(* `now` with a ttl of n seconds expires at now + n (Date.now() + n*1000). *)
(***************************************************************************)
MaxCacheTime == 2

\* config.cache.ttl and config.cache.redis_ttl (seconds)
cacheTtl == 2
cacheRedisTtl == 3

\* config.redis.reconnect.maxRetries and .retryInterval (milliseconds)
maxRetries == 3
retryInterval == 1000

\* config.cache.enabled
cacheEnabled == TRUE

Keys == {"k1", "k2"}

\* payloads; "0" stands for a falsy payload (0, "", false)
Values == {"v1", "0"}

Truthy(v) == v \notin {"0", "null"}

\* the ttl argument of set(): 0 stands for an omitted (null) argument
TtlArgs == {0, 1}

\* ttl || fallback
OrElse(ttl, fallback) == IF ttl # 0 THEN ttl ELSE fallback

\* JSON.stringify and JSON.parse of a payload
JSONstringify(v) == <<"json", v>>

JSONparse(text) == text[2]

\* a retry timer: the delay handed to setTimeout as a fraction of milliseconds
NoTimer == [num |-> 0, den |-> 1]

Pow(b, e) == IF e <= 0 THEN 1 ELSE IF e = 1 THEN b ELSE IF e = 2 THEN b * b
             ELSE IF e = 3 THEN b * b * b ELSE b * b * b * b

(***************************************************************************)
(* The Redis server as the client sees it.  A command on a socket that is  *)
(* not "ok" throws.  An entry past its expiry is gone.                     *)
(***************************************************************************)
RedisLive(R, t) == [k \in {x \in DOMAIN R : t < R[x].exp} |-> R[k]]

redisGet(R, key, t) ==
    IF key \in DOMAIN RedisLive(R, t) THEN R[key].val ELSE "null"

redisSetEx(R, key, seconds, text, t) ==
    MapSet(RedisLive(R, t), key, [val |-> text, exp |-> t + seconds])

(***************************************************************************)
(* CacheManager (cache-manager.js): the legacy coordinator.                *)
(* W holds its fields, the state of its client's socket (sock: "none",     *)
(* "ok", or "broken" once the server is lost) and the Redis database.      *)
(* Where connection attempts and calls take two steps the record also      *)
(* numbers the clients it creates: made is how many, id the number of      *)
(* this.redisClient, flight the clients whose connect() has not settled,   *)
(* callOn the client a call in progress was issued on.  cleanupInterval    *)
(* is the setInterval handle; closed says that close() has returned.       *)
(***************************************************************************)
CacheManagerNew ==
    [isRedisConnected |-> FALSE, redisClient |-> "null", retryCount |-> 0,
     retryTimeout |-> NoTimer, isReconnecting |-> FALSE, mapCache |-> EmptyMap,
     sock |-> "none", started |-> FALSE,
     cleanupInterval |-> FALSE, closed |-> FALSE,
     made |-> 0, id |-> 0, flight |-> {}, callOn |-> 0]

World(c, R) == [c |-> c, redis |-> R]

\* scheduleReconnect: one timer, always after retryInterval
scheduleReconnect(c) ==
    IF c.isReconnecting \/ c.retryCount >= maxRetries
    THEN c
    ELSE [c EXCEPT !.retryCount = c.retryCount + 1,
                   !.retryTimeout = [num |-> retryInterval, den |-> 1]]

\* handleRedisError: drop the client and schedule a reconnection
handleRedisError(c) ==
    scheduleReconnect([c EXCEPT !.isRedisConnected = FALSE,
                                !.redisClient = "null",
                                !.sock = "none"])

\* the 'end' listener
onEnd(c) ==
    scheduleReconnect([c EXCEPT !.isRedisConnected = FALSE, !.isReconnecting = FALSE])

\* the 'error' listener
onError(c) == handleRedisError([c EXCEPT !.isReconnecting = FALSE])

\* clearMapCache
clearMapCache(c) == [c EXCEPT !.mapCache = EmptyMap]

\* a 'connect' listener that would keep the map
onConnect_keepsMap(c) ==
    [c EXCEPT !.isRedisConnected = TRUE, !.retryCount = 0,
              !.isReconnecting = FALSE, !.retryTimeout = NoTimer]

\* the 'connect' listener
onConnect(c) ==
    [clearMapCache(c) EXCEPT !.isRedisConnected = TRUE, !.retryCount = 0,
                            !.isReconnecting = FALSE, !.retryTimeout = NoTimer]

(***************************************************************************)
(* connectRedis: an attempt runs to its outcome, which is success exactly  *)
(* when the server is up.  Disconnecting a client that is still open       *)
(* emits its 'end'.                                                        *)
(***************************************************************************)
connectRedis(c, up) ==
    IF ~cacheEnabled \/ c.isReconnecting \/ c.retryCount >= maxRetries
    THEN c
    ELSE LET c1 == [c EXCEPT !.isReconnecting = TRUE]
             c2 == IF c1.redisClient # "null" /\ c1.sock # "none" THEN onEnd(c1) ELSE c1
             c3 == [c2 EXCEPT !.redisClient = "client", !.sock = "none"]
         IN  IF up
             THEN onConnect([c3 EXCEPT !.sock = "ok"])
             ELSE handleRedisError([c3 EXCEPT !.isReconnecting = FALSE])

\* the clients one CacheManager creates while attempts take two steps
MaxMade == 3

\* the number of this.redisClient, 0 for null
Current(c) == IF c.redisClient = "null" THEN 0 ELSE c.id

\* connectRedis up to its await of connect() (lines 41-109): the guards,
\* the old client disconnected, the new client with its listeners
connectRedisBegin(c) ==
    IF ~cacheEnabled \/ c.isReconnecting \/ c.retryCount >= maxRetries
    THEN c
    ELSE LET c1 == [c EXCEPT !.isReconnecting = TRUE]
             c2 == IF c1.redisClient # "null" /\ c1.sock # "none" THEN onEnd(c1) ELSE c1
         IN  [c2 EXCEPT !.redisClient = "client", !.sock = "none",
                        !.id = c.made + 1, !.made = c.made + 1,
                        !.flight = c.flight \cup {c.made + 1}]

(***************************************************************************)
(* connectRedis from the moment connect() of client i settles.  A client   *)
(* that is still this.redisClient carries its listeners: it connects when  *)
(* the server is up ('connect'), otherwise connect() rejects, after an     *)
(* 'error' event when the attempt is noisy, and the catch runs.  The       *)
(* connect() of a client that was disconnected meanwhile can only reject.  *)
(***************************************************************************)
connectRedisEnd(c, i, up, noisy) ==
    LET mine == Current(c) = i
        c0 == [c EXCEPT !.flight = c.flight \ {i}]
    IN  IF up /\ mine
        THEN onConnect([c0 EXCEPT !.sock = "ok"])
        ELSE handleRedisError([(IF noisy /\ mine THEN onError(c0) ELSE c0)
                                 EXCEPT !.isReconnecting = FALSE])

\* close (lines 307-342)
cmClose(c) ==
    [clearMapCache(c) EXCEPT !.retryTimeout = NoTimer, !.cleanupInterval = FALSE,
                            !.redisClient = "null", !.sock = "none",
                            !.isRedisConnected = FALSE, !.isReconnecting = FALSE,
                            !.retryCount = 0, !.closed = TRUE]

\* the remote branch of get/set/del/clear is taken
UsesRedis(c) == c.isRedisConnected /\ c.redisClient # "null" /\ ~c.isReconnecting

\* the map branch of get (lines 213-229)
mapGet(c, key, t) ==
    IF key \in DOMAIN c.mapCache /\ Truthy(c.mapCache[key].val)
    THEN IF c.mapCache[key].exp = 0 \/ t < c.mapCache[key].exp
         THEN [c |-> c, ret |-> c.mapCache[key].val]
         ELSE [c |-> [c EXCEPT !.mapCache = MapDelete(c.mapCache, key)], ret |-> "null"]
    ELSE [c |-> c, ret |-> "null"]

cmGet(W, key, t) ==
    IF ~cacheEnabled
    THEN [c |-> W.c, redis |-> W.redis, ret |-> "null", path |-> "off"]
    ELSE IF UsesRedis(W.c)
         THEN IF W.c.sock = "ok"
              THEN IF redisGet(W.redis, key, t) # "null"
                   THEN [c |-> W.c, redis |-> W.redis,
                         ret |-> JSONparse(redisGet(W.redis, key, t)), path |-> "redis"]
                   ELSE LET m == mapGet(W.c, key, t)
                        IN  [c |-> m.c, redis |-> W.redis, ret |-> m.ret, path |-> "map"]
              ELSE LET m == mapGet(handleRedisError(W.c), key, t)
                   IN  [c |-> m.c, redis |-> W.redis, ret |-> m.ret, path |-> "map"]
         ELSE LET m == mapGet(W.c, key, t)
              IN  [c |-> m.c, redis |-> W.redis, ret |-> m.ret, path |-> "map"]

\* the map branch of set (lines 255-257)
mapSet(c, key, value, cacheTTL, t) ==
    [c EXCEPT !.mapCache = MapSet(c.mapCache, key, [val |-> value, exp |-> t + cacheTTL])]

\* the catch of get / set / del / clear (lines 207-210, 249-252, 275-278,
\* 298-301) and what follows it in the map
cmCatch(c, p, t) ==
    LET c1 == handleRedisError(c)
    IN  CASE p.op = "get" -> mapGet(c1, p.key, t)
          [] p.op = "set" -> [c |-> mapSet(c1, p.key, p.val, cacheTtl, t), ret |-> "undefined"]
          [] p.op = "del" -> [c |-> [c1 EXCEPT !.mapCache = MapDelete(c1.mapCache, p.key)],
                              ret |-> IF p.key \in DOMAIN c1.mapCache THEN "true" ELSE "false"]
          [] p.op = "clear" -> [c |-> clearMapCache(c1), ret |-> "undefined"]

cmSet_localOnly(W, key, value, ttl, t) ==
    LET cTTL == OrElse(ttl, cacheTtl)
        rTTL == OrElse(ttl, OrElse(cacheRedisTtl, cacheTtl))
    IN  IF ~cacheEnabled \/ cTTL <= 0
        THEN [c |-> W.c, redis |-> W.redis, path |-> "off"]
        ELSE [c |-> mapSet(IF UsesRedis(W.c) /\ W.c.sock # "ok"
                           THEN handleRedisError(W.c) ELSE W.c, key, value, cTTL, t),
              redis |-> W.redis, path |-> "map"]

cmSet(W, key, value, ttl, t) ==
    LET cTTL == OrElse(ttl, cacheTtl)
        rTTL == OrElse(ttl, OrElse(cacheRedisTtl, cacheTtl))
    IN  IF ~cacheEnabled \/ cTTL <= 0
        THEN [c |-> W.c, redis |-> W.redis, path |-> "off"]
        ELSE IF UsesRedis(W.c)
             THEN IF W.c.sock = "ok"
                  THEN [c |-> W.c,
                        redis |-> redisSetEx(W.redis, key, rTTL, JSONstringify(value), t),
                        path |-> "redis"]
                  ELSE [c |-> mapSet(handleRedisError(W.c), key, value, cTTL, t),
                        redis |-> W.redis, path |-> "map"]
             ELSE [c |-> mapSet(W.c, key, value, cTTL, t), redis |-> W.redis, path |-> "map"]

cmDel(W, key, t) ==
    IF ~cacheEnabled
    THEN [c |-> W.c, redis |-> W.redis, ret |-> FALSE]
    ELSE LET viaRedis == UsesRedis(W.c) /\ W.c.sock = "ok"
             c1 == IF UsesRedis(W.c) /\ W.c.sock # "ok" THEN handleRedisError(W.c) ELSE W.c
             R1 == IF viaRedis THEN MapDelete(RedisLive(W.redis, t), key) ELSE W.redis
             inRedis == viaRedis /\ key \in DOMAIN RedisLive(W.redis, t)
         IN  [c |-> [c1 EXCEPT !.mapCache = MapDelete(c1.mapCache, key)],
              redis |-> R1,
              ret |-> (inRedis \/ key \in DOMAIN c1.mapCache)]

cmClear(W) ==
    IF ~cacheEnabled
    THEN [c |-> W.c, redis |-> W.redis]
    ELSE IF UsesRedis(W.c)
         THEN IF W.c.sock = "ok"
              THEN [c |-> clearMapCache(W.c), redis |-> EmptyMap]
              ELSE [c |-> clearMapCache(handleRedisError(W.c)), redis |-> W.redis]
         ELSE [c |-> clearMapCache(W.c), redis |-> W.redis]

\* resetRetryCount that also gives the connection up
resetRetryCount_disconnects(c) ==
    [c EXCEPT !.retryCount = 0, !.isReconnecting = FALSE, !.retryTimeout = NoTimer,
              !.isRedisConnected = FALSE]

resetRetryCount(c) ==
    [c EXCEPT !.retryCount = 0, !.isReconnecting = FALSE, !.retryTimeout = NoTimer]

manualReconnect(c, up) == connectRedis(resetRetryCount(c), up)

\* cleanExpiredMapCache (the accessCount eviction above 10000 entries is out of reach here)
cleanExpiredMapCache(c, t) ==
    [c EXCEPT !.mapCache = [k \in {x \in DOMAIN c.mapCache : ~(t > c.mapCache[x].exp)}
                               |-> c.mapCache[k]]]

(***************************************************************************)
(* RedisCache (src/cache/RedisCache.js).  Its record holds the fields, the *)
(* pending setTimeout timers in the order they were set (each is the       *)
(* retry number n it was set for, its delay being retryInterval *          *)
(* 1.5^(n-1)), reconnectTimeout ("null", "latest" when it is the handle of *)
(* the last pending timer, "fired" when that timer has run), which client  *)
(* carries the listeners ("none", "current" for this.client, "old" once    *)
(* connect() has replaced the client that initialize() made), and the      *)
(* socket of the current client.                                           *)
(***************************************************************************)
MaxTimers == 2

\* the expiry instant of a key stored without EX: later than any instant a
\* ttl can give
Forever == MaxCacheTime + cacheRedisTtl + 1

\* client.set(key, text) without options
redisSet(R, key, text, t) ==
    MapSet(RedisLive(R, t), key, [val |-> text, exp |-> Forever])

\* BaseCache: this.stats as the constructor leaves it, and updateStats
NoStats == [hits |-> 0, misses |-> 0, total |-> 0]

updateStats(st, hit) ==
    [st EXCEPT !.total = st.total + 1,
               !.hits = IF hit THEN st.hits + 1 ELSE st.hits,
               !.misses = IF hit THEN st.misses ELSE st.misses + 1]

\* JSON.parse throws on a text that is not JSON; Foreign is such a text,
\* stored by another client of the same database
Decodable(text) == text[1] = "json"

Foreign == <<"raw", "x">>

RedisCacheNew(useRedis) ==
    [kind |-> "none", useRedis |-> useRedis, isConnected |-> FALSE, retryCount |-> 0,
     reconnectTimeout |-> "null", timers |-> <<>>, listeners |-> "none", sock |-> "none",
     closed |-> FALSE, stats |-> NoStats]

\* connect(): a new client; ok is FALSE when the attempt throws
connect(r, up) ==
    LET r1 == [r EXCEPT !.listeners = IF r.listeners = "none" THEN "none" ELSE "old"]
    IN  IF up
        THEN [r |-> [r1 EXCEPT !.isConnected = TRUE, !.retryCount = 0, !.sock = "ok"],
              ok |-> TRUE]
        ELSE [r |-> [r1 EXCEPT !.isConnected = FALSE, !.sock = "none"], ok |-> FALSE]

\* initialize(): connect, then setupEventListeners
initialize(r, up) ==
    LET c == connect(r, up)
    IN  IF c.ok THEN [r |-> [c.r EXCEPT !.listeners = "current"], ok |-> TRUE] ELSE c

\* the delay of the timer set for retry n, as a fraction of milliseconds
Delay(n) == [num |-> retryInterval * Pow(3, n - 1), den |-> Pow(2, n - 1)]

\* handleReconnect: the delay is retryInterval * 1.5^(retryCount - 1)
\* handleReconnect without its test of retryCount against maxRetries
handleReconnect_unguarded(r) ==
    [r EXCEPT !.retryCount = r.retryCount + 1,
              !.reconnectTimeout = "latest",
              !.timers = Append(r.timers, r.retryCount + 1)]

handleReconnect(r) ==
    IF r.retryCount >= maxRetries
    THEN r
    ELSE [r EXCEPT !.retryCount = r.retryCount + 1,
                   !.reconnectTimeout = "latest",
                   !.timers = Append(r.timers, r.retryCount + 1)]

\* a pending timer runs and leaves the list
Fired(r, i) ==
    [r EXCEPT !.timers = SubSeq(r.timers, 1, i - 1) \o SubSeq(r.timers, i + 1, Len(r.timers)),
              !.reconnectTimeout = IF i = Len(r.timers) /\ r.reconnectTimeout = "latest"
                                   THEN "fired" ELSE r.reconnectTimeout]

\* the callback of a reconnection timer
reconnectCallback(r, up) ==
    LET c == connect(r, up)
    IN  IF c.ok THEN c.r ELSE handleReconnect(c.r)

rcGet(r, R, key, t) ==
    IF ~r.isConnected
    THEN "null"
    ELSE IF r.sock = "ok"
         THEN IF redisGet(R, key, t) # "null" THEN JSONparse(redisGet(R, key, t)) ELSE "null"
         ELSE "null"

rcSet(r, R, key, value, ttl, t) ==
    LET actualTtl == OrElse(ttl, cacheRedisTtl)
    IN  IF r.isConnected /\ r.sock = "ok"
        THEN [redis |-> IF actualTtl > 0
                        THEN redisSetEx(R, key, actualTtl, JSONstringify(value), t)
                        ELSE redisSet(R, key, JSONstringify(value), t),
              ret |-> "true"]
        ELSE [redis |-> R, ret |-> "false"]

rcDel(r, R, key, t) ==
    IF r.isConnected /\ r.sock = "ok"
    THEN [redis |-> MapDelete(RedisLive(R, t), key), ret |-> "true"]
    ELSE [redis |-> R, ret |-> "false"]

rcClear(r, R) ==
    IF r.isConnected /\ r.sock = "ok"
    THEN [redis |-> EmptyMap, ret |-> "true"]
    ELSE [redis |-> R, ret |-> "false"]

\* client.ttl: -2 for a missing key, -1 for a key without expiry
redisTtl(R, key, t) ==
    IF key \notin DOMAIN RedisLive(R, t)
    THEN -2
    ELSE IF R[key].exp = Forever THEN -1 ELSE R[key].exp - t

rcGetTTL(r, R, key, t) ==
    IF r.isConnected /\ r.sock = "ok" THEN redisTtl(R, key, t) ELSE -2

rcExpire(r, R, key, seconds, t) ==
    IF r.isConnected /\ r.sock = "ok" /\ key \in DOMAIN RedisLive(R, t)
    THEN [redis |-> MapSet(RedisLive(R, t), key, [R[key] EXCEPT !.exp = t + seconds]),
          ret |-> "true"]
    ELSE [redis |-> R, ret |-> "false"]

rcResetRetryCount(r) == [r EXCEPT !.retryCount = 0]

\* manualReconnect: ok is FALSE when connect() throws to the caller
rcManualReconnect(r, up) ==
    connect([r EXCEPT !.timers = IF r.reconnectTimeout = "latest"
                                 THEN SubSeq(r.timers, 1, Len(r.timers) - 1)
                                 ELSE r.timers,
                      !.reconnectTimeout = "null",
                      !.retryCount = 0], up)

\* RedisCache.get with its bookkeeping (lines 121-145); ok is FALSE when
\* client.get rejects
rcGetCounted(r, R, key, t, ok) ==
    IF ~r.isConnected \/ ~ok
    THEN [stats |-> updateStats(r.stats, FALSE), ret |-> "null"]
    ELSE LET value == redisGet(R, key, t)
             counted == updateStats(r.stats, value # "null")
         IN  IF value = "null"
             THEN [stats |-> counted, ret |-> "null"]
             ELSE IF Decodable(value)
                  THEN [stats |-> counted, ret |-> JSONparse(value)]
                  ELSE [stats |-> updateStats(counted, FALSE), ret |-> "null"]

\* close (lines 297-308): clearTimeout of the one handle it holds, quit()
\* of a connected client, which throws over a broken socket
rcClose(r) ==
    LET r1 == [r EXCEPT !.timers = IF r.reconnectTimeout = "latest"
                                   THEN SubSeq(r.timers, 1, Len(r.timers) - 1)
                                   ELSE r.timers,
                        !.reconnectTimeout = "null"]
    IN  IF ~r1.isConnected
        THEN [r1 EXCEPT !.closed = TRUE]
        ELSE IF r1.sock = "ok"
             THEN [r1 EXCEPT !.isConnected = FALSE, !.sock = "none", !.closed = TRUE]
             ELSE r1

(***************************************************************************)
(* The lru-cache package as MemoryCache uses it.  An LRUCache is the       *)
(* sequence of its entries [key, val, start, ttl], least recently used     *)
(* first.  An entry is stale once it is older than its ttl.  set() takes   *)
(* an options object as third argument: a number there carries no ttl and  *)
(* the constructor's ttl applies.  The class has delete() and clear();     *)
(* it has no del() and no reset().                                         *)
(***************************************************************************)
lruMax == 2

LruMethods == {"get", "set", "has", "delete", "clear"}

AsNumber(n) == [kind |-> "number", n |-> n]

lruIsStale(e, t) == e.ttl # 0 /\ t - e.start > e.ttl

lruWithout(S, key) == SelectSeq(S, LAMBDA e : e.key # key)

lruHolds(S, key) == \E i \in 1..Len(S) : S[i].key = key

lruEntry(S, key) == S[CHOOSE i \in 1..Len(S) : S[i].key = key]

lruHas(S, key, t) == lruHolds(S, key) /\ ~lruIsStale(lruEntry(S, key), t)

lruGet(S, key, t) ==
    IF ~lruHolds(S, key)
    THEN [s |-> S, ret |-> "undefined"]
    ELSE IF lruIsStale(lruEntry(S, key), t)
         THEN [s |-> lruWithout(S, key), ret |-> "undefined"]
         ELSE [s |-> Append(lruWithout(S, key), lruEntry(S, key)),
               ret |-> lruEntry(S, key).val]

lruSet_evictsNewest(S, key, value, setOptions, defaultTtl, t) ==
    LET ttl == IF setOptions.kind = "options" THEN setOptions.ttl ELSE defaultTtl
        e == [key |-> key, val |-> value, start |-> t, ttl |-> ttl]
        rest == lruWithout(S, key)
    IN  IF Len(rest) >= lruMax
        THEN Append(SubSeq(rest, 1, Len(rest) - 1), e)
        ELSE Append(rest, e)

lruSet(S, key, value, setOptions, defaultTtl, t) ==
    LET ttl == IF setOptions.kind = "options" THEN setOptions.ttl ELSE defaultTtl
        e == [key |-> key, val |-> value, start |-> t, ttl |-> ttl]
        rest == lruWithout(S, key)
    IN  IF Len(rest) >= lruMax THEN Append(Tail(rest), e) ELSE Append(rest, e)

(***************************************************************************)
(* MemoryCache (src/cache/MemoryCache.js)                                  *)
(***************************************************************************)
memGet(S, key, t) ==
    LET g == lruGet(S, key, t)
    IN  [s |-> g.s, ret |-> IF g.ret # "undefined" THEN g.ret ELSE "null"]

\* MemoryCache.get with its bookkeeping (lines 43-54)
memGetCounted(st, S, key, t) ==
    LET g == lruGet(S, key, t)
    IN  [s |-> g.s, stats |-> updateStats(st, g.ret # "undefined"),
         ret |-> IF g.ret # "undefined" THEN g.ret ELSE "null"]

memSet(S, key, value, ttl, t) ==
    [s |-> lruSet(S, key, value, AsNumber(OrElse(ttl, cacheTtl)), cacheTtl, t), ret |-> "true"]

memDel(S, key) ==
    IF "del" \in LruMethods
    THEN [s |-> lruWithout(S, key), ret |-> "true"]
    ELSE [s |-> S, ret |-> "false"]

memClear(S) ==
    IF "reset" \in LruMethods
    THEN [s |-> <<>>, ret |-> "true"]
    ELSE [s |-> S, ret |-> "false"]

memGetTTL(S, key, t) == IF lruHas(S, key, t) THEN cacheTtl ELSE -2

memExpire(S, key, seconds, t) ==
    LET g == lruGet(S, key, t)
    IN  IF g.ret # "undefined"
        THEN [s |-> lruSet(g.s, key, g.ret, AsNumber(seconds), cacheTtl, t), ret |-> "true"]
        ELSE [s |-> g.s, ret |-> "false"]

(***************************************************************************)
(* SimpleCacheManager (simple-cache-manager.js)                            *)
(***************************************************************************)
simpleGet(M, key, t) ==
    IF key \in DOMAIN M
    THEN IF M[key].exp = 0 \/ t < M[key].exp
         THEN [m |-> M, ret |-> M[key].val]
         ELSE [m |-> MapDelete(M, key), ret |-> "null"]
    ELSE [m |-> M, ret |-> "null"]

simpleSet(M, key, value, ttl, t) ==
    LET cacheTTL == OrElse(ttl, cacheTtl)
    IN  IF ~cacheEnabled \/ cacheTTL <= 0
        THEN M
        ELSE MapSet(M, key, [val |-> value, exp |-> t + cacheTTL])

simpleDel(M, key) ==
    [m |-> MapDelete(M, key), ret |-> IF key \in DOMAIN M THEN "true" ELSE "false"]

simpleGetTTL(M, key, t) ==
    IF ~cacheEnabled \/ key \notin DOMAIN M
    THEN -1
    ELSE IF M[key].exp <= t THEN -2 ELSE M[key].exp - t

simpleExpire(M, key, seconds, t) ==
    IF ~cacheEnabled \/ key \notin DOMAIN M
    THEN [m |-> M, ret |-> "false"]
    ELSE [m |-> MapSet(M, key, [M[key] EXCEPT !.exp = t + seconds]), ret |-> "true"]

simpleCleanExpired(M, t) == [k \in {x \in DOMAIN M : ~(t > M[x].exp)} |-> M[k]]

(***************************************************************************)
(* The coordinator's calls, timers and events, and its environment.        *)
(***************************************************************************)
\* the retries are used up: the count is at its maximum and no timer is pending
Spent(c) == c.retryCount >= maxRetries /\ c.retryTimeout = NoTimer

rcSpent(r) == r.retryCount >= maxRetries /\ r.timers = <<>>

NoServed ==
    [client |-> "none", kind |-> "none", isJson |-> FALSE, ops |-> <<>>, cached |-> "none",
     response |-> "none"]

NoPending == [op |-> "none", key |-> "none", val |-> "none"]

NoCall == [op |-> "none", key |-> "none", val |-> "none", ret |-> "none", path |-> "none"]

CoordinatorInit ==
    /\ cm = CacheManagerNew
    /\ cmLast = NoCall
    /\ cleared = {}
    /\ manualOk = FALSE
    /\ written = [k \in Keys |-> "none"]

\* initialize(config): the first connection attempt
CM_Initialize ==
    /\ ~cm.started
    /\ cm' = connectRedis([cm EXCEPT !.started = TRUE, !.cleanupInterval = TRUE], remoteUp)
    /\ cmLast' = NoCall
    /\ exhausted' = (exhausted \/ Spent(cm'))
    /\ UNCHANGED <<pending, served>>
    /\ UNCHANGED <<now, rlVars, ifVars, remoteUp, redis, cleared, manualOk, written>>

CM_Get(key) ==
    /\ cm.started
    /\ LET r == cmGet(World(cm, redis), key, now)
       IN  /\ cm' = r.c
           /\ cmLast' = [op |-> "get", key |-> key, val |-> "none", ret |-> r.ret,
                         path |-> r.path]
    /\ exhausted' = (exhausted \/ Spent(cm'))
    /\ UNCHANGED <<pending, served>>
    /\ UNCHANGED <<now, rlVars, ifVars, remoteUp, redis, cleared, manualOk, written>>

CM_Set(key, value, ttl) ==
    /\ cm.started
    /\ LET r == cmSet(World(cm, redis), key, value, ttl, now)
       IN  /\ cm' = r.c
           /\ redis' = r.redis
           /\ cmLast' = [op |-> "set", key |-> key, val |-> value, ret |-> "undefined",
                         path |-> r.path]
    /\ cleared' = cleared \ {key}
    /\ exhausted' = (exhausted \/ Spent(cm'))
    /\ UNCHANGED <<pending, served>>
    /\ written' = [written EXCEPT ![key] = value]
    /\ UNCHANGED <<now, rlVars, ifVars, remoteUp, manualOk>>

CM_Del(key) ==
    /\ cm.started
    /\ LET r == cmDel(World(cm, redis), key, now)
       IN  /\ cm' = r.c
           /\ redis' = r.redis
           /\ cmLast' = [op |-> "del", key |-> key, val |-> "none",
                         ret |-> IF r.ret THEN "true" ELSE "false", path |-> "none"]
    /\ exhausted' = (exhausted \/ Spent(cm'))
    /\ UNCHANGED <<pending, served>>
    /\ UNCHANGED <<now, rlVars, ifVars, remoteUp, cleared, manualOk, written>>

CM_Clear ==
    /\ cm.started
    /\ LET r == cmClear(World(cm, redis))
       IN  /\ cm' = r.c
           /\ redis' = r.redis
    /\ cmLast' = [NoCall EXCEPT !.op = "clear"]
    /\ cleared' = DOMAIN RedisLive(redis, now) \cup DOMAIN cm.mapCache
    /\ exhausted' = (exhausted \/ Spent(cm'))
    /\ UNCHANGED <<pending, served>>
    /\ UNCHANGED <<now, rlVars, ifVars, remoteUp, manualOk, written>>

\* the retry timer's callback
CM_TimerFires ==
    /\ cm.retryTimeout # NoTimer
    /\ cm' = connectRedis([cm EXCEPT !.retryTimeout = NoTimer], remoteUp)
    /\ cmLast' = NoCall
    /\ exhausted' = (exhausted \/ Spent(cm'))
    /\ UNCHANGED <<pending, served>>
    /\ UNCHANGED <<now, rlVars, ifVars, remoteUp, redis, cleared, manualOk, written>>

\* the client reports the lost connection as 'error'
CM_ErrorEvent ==
    /\ cm.sock = "broken"
    /\ cm' = onError(cm)
    /\ cmLast' = NoCall
    /\ exhausted' = (exhausted \/ Spent(cm'))
    /\ UNCHANGED <<pending, served>>
    /\ UNCHANGED <<now, rlVars, ifVars, remoteUp, redis, cleared, manualOk, written>>

\* the client reports the lost connection as 'end'
CM_EndEvent ==
    /\ cm.sock = "broken"
    /\ cm' = onEnd([cm EXCEPT !.sock = "none"])
    /\ cmLast' = NoCall
    /\ exhausted' = (exhausted \/ Spent(cm'))
    /\ UNCHANGED <<pending, served>>
    /\ UNCHANGED <<now, rlVars, ifVars, remoteUp, redis, cleared, manualOk, written>>

CM_ResetRetryCount ==
    /\ cm.started
    /\ cm' = resetRetryCount(cm)
    /\ cmLast' = [NoCall EXCEPT !.op = "resetRetryCount"]
    /\ exhausted' = (exhausted \/ Spent(cm'))
    /\ UNCHANGED <<pending, served>>
    /\ UNCHANGED <<now, rlVars, ifVars, remoteUp, redis, cleared, manualOk, written>>

CM_ManualReconnect ==
    /\ cm.started
    /\ cm' = manualReconnect(cm, remoteUp)
    /\ manualOk' = (remoteUp /\ (cm.sock # "ok" \/ manualOk))
    /\ UNCHANGED written
    /\ cmLast' = [NoCall EXCEPT !.op = "manualReconnect"]
    /\ exhausted' = Spent(cm')
    /\ UNCHANGED <<pending, served>>
    /\ UNCHANGED <<now, rlVars, ifVars, remoteUp, redis, cleared>>

\* the map_cleanup_interval timer
CM_CleanExpired ==
    /\ cm.started
    /\ cm' = cleanExpiredMapCache(cm, now)
    /\ cm' # cm
    /\ cmLast' = NoCall
    /\ exhausted' = (exhausted \/ Spent(cm'))
    /\ UNCHANGED <<pending, served>>
    /\ UNCHANGED <<now, rlVars, ifVars, remoteUp, redis, cleared, manualOk, written>>

(***************************************************************************)
(* The cache behind the common interface (get, set, del, clear): the one   *)
(* CacheFactory.createCache returns ("factory": a RedisCache or a          *)
(* MemoryCache), a SimpleCacheManager ("simple"), a MemoryCache            *)
(* ("memory"), or a CacheManager whose Redis server never answers ("map"). *)
(***************************************************************************)
Kind == IF impl = "factory" THEN rc.kind ELSE impl

NoSet == [key |-> "none", val |-> "none", ttl |-> 0, at |-> 0]

InterfaceInit ==
    /\ impl = "factory"
    /\ rc \in {RedisCacheNew(u) : u \in BOOLEAN}
    /\ lru = <<>>
    /\ simple = EmptyMap
    /\ call = NoCall
    /\ lastSet = NoSet

\* CacheFactory.createCache(config, useRedis)
\* createCache without the catch branch: the RedisCache is returned even
\* when its initialize() failed
CreateCache_noFallback ==
    /\ impl = "factory"
    /\ rc.kind = "none"
    /\ rc' = IF rc.useRedis
             THEN [initialize(rc, remoteUp).r EXCEPT !.kind = "redis"]
             ELSE [rc EXCEPT !.kind = "memory"]
    /\ lru' = <<>>
    /\ call' = [NoCall EXCEPT !.op = "createCache", !.ret = rc'.kind]
    /\ UNCHANGED <<now, rlVars, envVars, cmVars, impl, simple, lastSet, exhausted, pending, served>>

CreateCache ==
    /\ impl = "factory"
    /\ rc.kind = "none"
    /\ rc' = IF rc.useRedis
             THEN LET i == initialize(rc, remoteUp)
                  IN  [i.r EXCEPT !.kind = IF i.ok THEN "redis" ELSE "memory"]
             ELSE [rc EXCEPT !.kind = "memory"]
    /\ lru' = <<>>
    /\ call' = [NoCall EXCEPT !.op = "createCache", !.ret = rc'.kind]
    /\ UNCHANGED <<now, rlVars, envVars, cmVars, impl, simple, lastSet, exhausted, pending, served>>

Cache_Get(key) ==
    /\ Kind # "none"
    /\ LET m == memGet(lru, key, now)
           g == simpleGet(simple, key, now)
           c == cmGet(World(cm, redis), key, now)
       IN  /\ lru' = IF Kind = "memory" THEN m.s ELSE lru
           /\ simple' = IF Kind = "simple" THEN g.m ELSE simple
           /\ cm' = IF Kind = "map" THEN c.c ELSE cm
           /\ call' = [op |-> "get", key |-> key, val |-> "none", path |-> "none",
                       ret |-> CASE Kind = "redis" -> rcGet(rc, redis, key, now)
                                 [] Kind = "memory" -> m.ret
                                 [] Kind = "simple" -> g.ret
                                 [] Kind = "map" -> c.ret]
    /\ UNCHANGED <<now, rlVars, envVars, cmLast, cleared, manualOk, written, impl, rc, lastSet, exhausted, pending, served>>

Cache_Set(key, value, ttl) ==
    /\ Kind # "none"
    /\ LET r == rcSet(rc, redis, key, value, ttl, now)
           m == memSet(lru, key, value, ttl, now)
           c == cmSet(World(cm, redis), key, value, ttl, now)
       IN  /\ redis' = IF Kind = "redis" THEN r.redis ELSE redis
           /\ lru' = IF Kind = "memory" THEN m.s ELSE lru
           /\ simple' = IF Kind = "simple" THEN simpleSet(simple, key, value, ttl, now)
                        ELSE simple
           /\ cm' = IF Kind = "map" THEN c.c ELSE cm
           /\ call' = [op |-> "set", key |-> key, val |-> value,
                       path |-> IF Kind = "memory" /\ ~lruHolds(lru, key)
                                                   /\ Len(lru) >= lruMax
                                THEN "full" ELSE "none",
                       ret |-> CASE Kind = "redis" -> r.ret
                                 [] Kind = "memory" -> m.ret
                                 [] OTHER -> "undefined"]
    /\ lastSet' = IF remoteUp THEN NoSet
                   ELSE [key |-> key, val |-> value, ttl |-> ttl, at |-> now]
    /\ UNCHANGED <<now, rlVars, remoteUp, cmLast, cleared, manualOk, written, impl, rc, exhausted, pending, served>>

Cache_Del(key) ==
    /\ Kind # "none"
    /\ LET r == rcDel(rc, redis, key, now)
           m == memDel(lru, key)
           g == simpleDel(simple, key)
           c == cmDel(World(cm, redis), key, now)
       IN  /\ redis' = IF Kind = "redis" THEN r.redis ELSE redis
           /\ lru' = IF Kind = "memory" THEN m.s ELSE lru
           /\ simple' = IF Kind = "simple" THEN g.m ELSE simple
           /\ cm' = IF Kind = "map" THEN c.c ELSE cm
           /\ call' = [op |-> "del", key |-> key, val |-> "none", path |-> "none",
                       ret |-> CASE Kind = "redis" -> r.ret
                                 [] Kind = "memory" -> m.ret
                                 [] Kind = "simple" -> g.ret
                                 [] Kind = "map" -> IF c.ret THEN "true" ELSE "false"]
    /\ lastSet' = IF lastSet.key = key THEN NoSet ELSE lastSet
    /\ UNCHANGED <<now, rlVars, remoteUp, cmLast, cleared, manualOk, written, impl, rc, exhausted, pending, served>>

Cache_Clear ==
    /\ Kind # "none"
    /\ LET r == rcClear(rc, redis)
           m == memClear(lru)
           c == cmClear(World(cm, redis))
       IN  /\ redis' = IF Kind = "redis" THEN r.redis ELSE redis
           /\ lru' = IF Kind = "memory" THEN m.s ELSE lru
           /\ simple' = IF Kind = "simple" THEN EmptyMap ELSE simple
           /\ cm' = IF Kind = "map" THEN c.c ELSE cm
           /\ call' = [NoCall EXCEPT !.op = "clear",
                                     !.ret = CASE Kind = "redis" -> r.ret
                                               [] Kind = "memory" -> m.ret
                                               [] OTHER -> "undefined"]
    /\ lastSet' = NoSet
    /\ UNCHANGED <<now, rlVars, remoteUp, cmLast, cleared, manualOk, written, impl, rc, exhausted, pending, served>>

\* the caches that have getTTL and expire (the legacy CacheManager has neither)
HasTtlCalls == Kind \in {"redis", "memory", "simple"}

Cache_GetTTL(key) ==
    /\ HasTtlCalls
    /\ call' = [op |-> "getTTL", key |-> key, val |-> "none", path |-> "none",
                ret |-> ToString(CASE Kind = "redis" -> rcGetTTL(rc, redis, key, now)
                                   [] Kind = "memory" -> memGetTTL(lru, key, now)
                                   [] Kind = "simple" -> simpleGetTTL(simple, key, now))]
    /\ UNCHANGED <<now, rlVars, envVars, cmVars, impl, rc, lru, simple, lastSet, exhausted, pending, served>>

\* POST /cache/expire/:key with seconds in the body
ExpireArgs == {1}

Cache_Expire(key, seconds) ==
    /\ HasTtlCalls
    /\ LET r == rcExpire(rc, redis, key, seconds, now)
           m == memExpire(lru, key, seconds, now)
           g == simpleExpire(simple, key, seconds, now)
       IN  /\ redis' = IF Kind = "redis" THEN r.redis ELSE redis
           /\ lru' = IF Kind = "memory" THEN m.s ELSE lru
           /\ simple' = IF Kind = "simple" THEN g.m ELSE simple
           /\ call' = [op |-> "expire", key |-> key, val |-> "none", path |-> "none",
                       ret |-> CASE Kind = "redis" -> r.ret
                                 [] Kind = "memory" -> m.ret
                                 [] Kind = "simple" -> g.ret]
    /\ lastSet' = IF lastSet.key = key THEN NoSet ELSE lastSet
    /\ UNCHANGED <<now, rlVars, remoteUp, cmVars, impl, rc, exhausted, pending, served>>

\* the 'error' listener of the client made by initialize()
RC_ErrorEvent ==
    /\ rc.listeners # "none"
    /\ ~remoteUp
    /\ Len(rc.timers) < MaxTimers
    /\ rc' = handleReconnect([rc EXCEPT !.isConnected = FALSE])
    /\ call' = NoCall
    /\ exhausted' = (exhausted \/ rcSpent(rc'))
    /\ UNCHANGED <<pending, served>>
    /\ UNCHANGED <<now, rlVars, envVars, cmVars, impl, lru, simple, lastSet>>

\* its 'end' listener
RC_EndEvent ==
    /\ rc.listeners # "none"
    /\ ~remoteUp
    /\ rc.isConnected
    /\ rc' = [rc EXCEPT !.isConnected = FALSE]
    /\ call' = NoCall
    /\ exhausted' = (exhausted \/ rcSpent(rc'))
    /\ UNCHANGED <<pending, served>>
    /\ UNCHANGED <<now, rlVars, envVars, cmVars, impl, lru, simple, lastSet>>

RC_TimerFires(i) ==
    /\ i \in 1..Len(rc.timers)
    /\ rc' = reconnectCallback(Fired(rc, i), remoteUp)
    /\ call' = NoCall
    /\ exhausted' = (exhausted \/ rcSpent(rc'))
    /\ UNCHANGED <<pending, served>>
    /\ UNCHANGED <<now, rlVars, envVars, cmVars, impl, lru, simple, lastSet>>

RC_ResetRetryCount ==
    /\ Kind = "redis"
    /\ rc' = rcResetRetryCount(rc)
    /\ rc' # rc
    /\ call' = [NoCall EXCEPT !.op = "resetRetryCount"]
    /\ exhausted' = (exhausted \/ rcSpent(rc'))
    /\ UNCHANGED <<pending, served>>
    /\ UNCHANGED <<now, rlVars, envVars, cmVars, impl, lru, simple, lastSet>>

RC_ManualReconnect ==
    /\ Kind = "redis"
    /\ LET c == rcManualReconnect(rc, remoteUp)
       IN  /\ rc' = c.r
           /\ call' = [NoCall EXCEPT !.op = "manualReconnect",
                                     !.ret = IF c.ok THEN "undefined" ELSE "throws"]
    /\ exhausted' = rcSpent(rc')
    /\ UNCHANGED <<pending, served>>
    /\ UNCHANGED <<now, rlVars, envVars, cmVars, impl, lru, simple, lastSet>>

\* the map_cleanup_interval timer of SimpleCacheManager and of CacheManager
Local_CleanExpired ==
    /\ Kind \in {"simple", "map"}
    /\ simple' = IF Kind = "simple" THEN simpleCleanExpired(simple, now) ELSE simple
    /\ cm' = IF Kind = "map" THEN cleanExpiredMapCache(cm, now) ELSE cm
    /\ <<simple', cm'>> # <<simple, cm>>
    /\ call' = NoCall
    /\ UNCHANGED <<now, rlVars, envVars, cmLast, cleared, manualOk, written, impl, rc, lru, lastSet, exhausted, pending, served>>

(***************************************************************************)
(* The environment: the server goes away and comes back, and time passes.  *)
(***************************************************************************)
Break(sock) == IF sock = "ok" THEN "broken" ELSE sock

\* the server becomes unreachable: an open socket breaks
RemoteDown ==
    /\ remoteUp
    /\ remoteUp' = FALSE
    /\ cm' = [cm EXCEPT !.sock = Break(cm.sock)]
    /\ rc' = [rc EXCEPT !.sock = Break(rc.sock)]
    /\ manualOk' = FALSE
    /\ UNCHANGED written
    /\ cmLast' = NoCall
    /\ call' = NoCall
    /\ UNCHANGED <<now, rlVars, redis, cleared, impl, lru, simple, lastSet, exhausted, pending, served>>

RemoteUp ==
    /\ ~remoteUp
    /\ remoteUp' = TRUE
    /\ cmLast' = NoCall
    /\ call' = NoCall
    /\ lastSet' = NoSet
    /\ UNCHANGED <<now, rlVars, redis, cm, cleared, manualOk, written, impl, rc, lru, simple, exhausted, pending, served>>

\* a second passes; Redis drops what has expired
CacheTick ==
    /\ now < MaxCacheTime
    /\ now' = now + 1
    /\ redis' = RedisLive(redis, now + 1)
    /\ cmLast' = NoCall
    /\ call' = NoCall
    /\ UNCHANGED <<rlVars, remoteUp, cm, cleared, manualOk, written, impl, rc, lru, simple, lastSet, exhausted, pending, served>>

\* the calls made while the connection comes and goes give a short ttl, so
\* that map entries expire within MaxCacheTime
ShortTtls == {1}

CoordinatorNext ==
    \/ CM_Initialize
    \/ \E key \in Keys : CM_Get(key)
    \/ \E key \in Keys, value \in Values, ttl \in ShortTtls : CM_Set(key, value, ttl)
    \/ \E key \in Keys : CM_Del(key)
    \/ CM_Clear
    \/ CM_TimerFires
    \/ CM_ErrorEvent
    \/ CM_EndEvent
    \/ CM_ResetRetryCount
    \/ CM_ManualReconnect
    \/ CM_CleanExpired
    \/ RemoteDown
    \/ RemoteUp
    \/ CacheTick

RedisCacheNext ==
    \/ CreateCache
    \/ \E key \in Keys : Cache_Get(key)
    \/ \E key \in Keys, value \in Values, ttl \in TtlArgs : Cache_Set(key, value, ttl)
    \/ \E key \in Keys : Cache_Del(key)
    \/ Cache_Clear
    \/ RC_ErrorEvent
    \/ RC_EndEvent
    \/ \E i \in 1..MaxTimers : RC_TimerFires(i)
    \/ RC_ResetRetryCount
    \/ RC_ManualReconnect
    \/ RemoteDown
    \/ RemoteUp
    \/ CacheTick

\* MemoryCache is given one key more than it can hold
KeyNames == <<"k1", "k2", "k3", "k4">>

LocalKeys == IF impl = "memory" THEN {KeyNames[i] : i \in 1..(lruMax + 1)} ELSE Keys

\* MemoryCache returns what it holds whatever the payload is
LocalValues == IF impl = "memory" THEN {"v1"} ELSE Values

LocalNext ==
    \/ \E key \in LocalKeys : Cache_Get(key)
    \/ \E key \in LocalKeys, value \in LocalValues, ttl \in TtlArgs :
          Cache_Set(key, value, ttl)
    \/ \E key \in LocalKeys : Cache_Del(key)
    \/ Cache_Clear
    \/ \E key \in LocalKeys : Cache_GetTTL(key)
    \/ \E key \in LocalKeys, seconds \in ExpireArgs : Cache_Expire(key, seconds)
    \/ Local_CleanExpired
    \/ CM_TimerFires
    \/ CacheTick

(***************************************************************************)
(* The two Redis clients side by side: either the CacheManager             *)
(* ("coordinator") or the cache made by CacheFactory ("factory") runs,     *)
(* with one key and one payload.                                           *)
(***************************************************************************)
ClientKeys == {"k1"}

ClientValues == {"v1"}

\* set() is called without a ttl or with a negative one
FactoryTtls == {0, -1}

ClientsNext ==
    \/ /\ impl = "coordinator"
       /\ \/ CM_Initialize
          \/ \E key \in ClientKeys : CM_Get(key)
          \/ \E key \in ClientKeys, value \in ClientValues, ttl \in TtlArgs :
                CM_Set(key, value, ttl)
          \/ \E key \in ClientKeys : CM_Del(key)
          \/ CM_Clear
          \/ CM_TimerFires
          \/ CM_ErrorEvent
          \/ CM_EndEvent
          \/ CM_ResetRetryCount
          \/ CM_ManualReconnect
          \/ CM_CleanExpired
    \/ /\ impl = "factory"
       /\ \/ CreateCache
          \/ \E key \in ClientKeys : Cache_Get(key)
          \/ \E key \in ClientKeys, value \in ClientValues, ttl \in FactoryTtls :
                Cache_Set(key, value, ttl)
          \/ \E key \in ClientKeys : Cache_Del(key)
          \/ Cache_Clear
          \/ \E key \in ClientKeys : Cache_GetTTL(key)
          \/ \E key \in ClientKeys, seconds \in ExpireArgs : Cache_Expire(key, seconds)
          \/ RC_ErrorEvent
          \/ RC_EndEvent
          \/ \E i \in 1..MaxTimers : RC_TimerFires(i)
          \/ RC_ResetRetryCount
          \/ RC_ManualReconnect
    \/ RemoteDown
    \/ RemoteUp
    \/ CacheTick

(***************************************************************************)
(* A cache call in two steps.  A get, set, del or clear of a client that   *)
(* believes itself connected sends its Redis command and awaits the reply  *)
(* (Call_Send); timers, events and reconnections run meanwhile; the reply, *)
(* success or failure, resumes the call, which runs to its return          *)
(* (Call_Reply).  A call of a client that is not connected has no await    *)
(* and is the one-step call above.                                         *)
(***************************************************************************)
CallOps == {"get", "set", "del", "clear"}

Awaits == IF impl = "coordinator"
          THEN cm.started /\ cacheEnabled /\ UsesRedis(cm)
          ELSE Kind = "redis" /\ rc.isConnected

Call_Send(op, key, value) ==
    /\ pending = NoPending
    /\ Awaits
    /\ pending' = [op |-> op,
                   key |-> IF op = "clear" THEN "none" ELSE key,
                   val |-> IF op = "set" THEN value ELSE "none"]
    /\ UNCHANGED <<now, rlVars, envVars, cmVars, ifVars, exhausted, served>>

\* the rest of CacheManager.get / set / del / clear after its await
cmResume(p, ok) ==
    LET seen == IF ok THEN cm
                ELSE [cm EXCEPT !.isRedisConnected = TRUE, !.redisClient = "client",
                                !.isReconnecting = FALSE, !.sock = "broken"]
        W == World(seen, redis)
    IN  CASE p.op = "get" ->
               LET r == cmGet(W, p.key, now)
               IN  [c |-> r.c, redis |-> redis, ret |-> r.ret]
          [] p.op = "set" ->
               LET r == cmSet(W, p.key, p.val, 0, now)
               IN  [c |-> r.c, redis |-> r.redis, ret |-> "undefined"]
          [] p.op = "del" ->
               LET r == cmDel(W, p.key, now)
               IN  [c |-> r.c, redis |-> r.redis, ret |-> IF r.ret THEN "true" ELSE "false"]
          [] p.op = "clear" ->
               LET r == cmClear(W)
               IN  [c |-> r.c, redis |-> r.redis, ret |-> "undefined"]

\* the rest of RedisCache.get / set / del / clear after its await
rcResume(p, ok) ==
    LET seen == [rc EXCEPT !.isConnected = TRUE, !.sock = IF ok THEN "ok" ELSE "broken"]
    IN  CASE p.op = "get" -> [redis |-> redis, ret |-> rcGet(seen, redis, p.key, now)]
          [] p.op = "set" -> rcSet(seen, redis, p.key, p.val, 0, now)
          [] p.op = "del" -> rcDel(seen, redis, p.key, now)
          [] p.op = "clear" -> rcClear(seen, redis)

\* a reply handler that would hold the call until the connection is back
Call_Reply_awaitsConnection ==
    /\ pending # NoPending
    /\ remoteUp
    /\ IF impl = "coordinator" THEN UsesRedis(cm) /\ cm.sock = "ok" ELSE rc.sock = "ok"
    /\ IF impl = "coordinator"
       THEN LET r == cmResume(pending, TRUE)
            IN  /\ cm' = r.c
                /\ redis' = r.redis
                /\ cmLast' = [op |-> pending.op, key |-> pending.key,
                              val |-> pending.val, ret |-> r.ret, path |-> "reply"]
                /\ UNCHANGED <<rc, call>>
       ELSE LET r == rcResume(pending, TRUE)
            IN  /\ redis' = r.redis
                /\ call' = [op |-> pending.op, key |-> pending.key,
                            val |-> pending.val, ret |-> r.ret, path |-> "reply"]
                /\ UNCHANGED <<cm, cmLast, rc>>
    /\ pending' = NoPending
    /\ exhausted' = (exhausted \/ Spent(cm'))
    /\ UNCHANGED <<now, rlVars, remoteUp, cleared, manualOk, written, impl, lru, simple,
                   lastSet, served>>

\* the reply arrives: the command succeeded (possible only over a working
\* socket) or failed
Call_Reply ==
    /\ pending # NoPending
    /\ \E ok \in BOOLEAN :
          /\ ok => IF impl = "coordinator" THEN UsesRedis(cm) /\ cm.sock = "ok"
                                           ELSE rc.sock = "ok"
          /\ IF impl = "coordinator"
             THEN LET r == cmResume(pending, ok)
                  IN  /\ cm' = r.c
                      /\ redis' = r.redis
                      /\ cmLast' = [op |-> pending.op, key |-> pending.key,
                                    val |-> pending.val, ret |-> r.ret,
                                    path |-> IF ok THEN "reply" ELSE "failed"]
                      /\ UNCHANGED <<rc, call>>
             ELSE LET r == rcResume(pending, ok)
                  IN  /\ redis' = r.redis
                      /\ call' = [op |-> pending.op, key |-> pending.key,
                                  val |-> pending.val, ret |-> r.ret,
                                  path |-> IF ok THEN "reply" ELSE "failed"]
                      /\ UNCHANGED <<cm, cmLast, rc>>
    /\ pending' = NoPending
    /\ exhausted' = (exhausted \/ Spent(cm'))
    /\ UNCHANGED <<now, rlVars, remoteUp, cleared, manualOk, written, impl, lru, simple,
                   lastSet, served>>

(***************************************************************************)
(* The life of one cache client from initialize() to close(), with what    *)
(* the code awaits taken as a step of its own: a connection attempt begins *)
(* (connectRedis up to its await of connect()) and later settles; a call   *)
(* is issued on the current client and later replies.  After close() the   *)
(* application calls nothing more; what is still pending runs on.          *)
(***************************************************************************)
\* initialize(config): the cleanup interval and the first attempt
CM_InitializeBegins ==
    /\ impl = "coordinator"
    /\ ~cm.started
    /\ cm' = connectRedisBegin([cm EXCEPT !.started = TRUE, !.cleanupInterval = TRUE])
    /\ cmLast' = [NoCall EXCEPT !.op = "initialize"]
    /\ UNCHANGED <<now, rlVars, envVars, cleared, manualOk, written, ifVars, exhausted,
                   pending, served>>

\* the retry timer's callback
CM_RetryBegins ==
    /\ impl = "coordinator"
    /\ cm.retryTimeout # NoTimer
    /\ cm.made < MaxMade
    /\ cm' = connectRedisBegin([cm EXCEPT !.retryTimeout = NoTimer])
    /\ cmLast' = [NoCall EXCEPT !.op = "timer"]
    /\ UNCHANGED <<now, rlVars, envVars, cleared, manualOk, written, ifVars, exhausted,
                   pending, served>>

\* manualReconnect up to the await inside connectRedis
CM_ManualReconnectBegins ==
    /\ impl = "coordinator"
    /\ cm.started /\ ~cm.closed
    /\ cm.made < MaxMade
    /\ cm' = connectRedisBegin(resetRetryCount(cm))
    /\ cmLast' = [NoCall EXCEPT !.op = "manualReconnect"]
    /\ UNCHANGED <<now, rlVars, envVars, cleared, manualOk, written, ifVars, exhausted,
                   pending, served>>

\* connect() of client i settles
CM_ConnectSettles(i, noisy) ==
    /\ impl = "coordinator"
    /\ i \in cm.flight
    /\ cm' = connectRedisEnd(cm, i, remoteUp, noisy)
    /\ cmLast' = [NoCall EXCEPT !.op = "settle"]
    /\ UNCHANGED <<now, rlVars, envVars, cleared, manualOk, written, ifVars, exhausted,
                   pending, served>>

\* the 'error' and 'end' of the connected client whose socket broke
CM_Lost ==
    /\ impl = "coordinator"
    /\ cm.sock = "broken"
    /\ \/ cm' = onError(cm)
       \/ cm' = onEnd([cm EXCEPT !.sock = "none"])
    /\ cmLast' = [NoCall EXCEPT !.op = "lost"]
    /\ UNCHANGED <<now, rlVars, envVars, cleared, manualOk, written, ifVars, exhausted,
                   pending, served>>

\* get / set / del / clear up to its await of the Redis command
CM_CallSent(op, key, value) ==
    /\ impl = "coordinator"
    /\ cm.started /\ ~cm.closed
    /\ pending = NoPending
    /\ UsesRedis(cm)
    /\ pending' = [op |-> op,
                   key |-> IF op = "clear" THEN "none" ELSE key,
                   val |-> IF op = "set" THEN value ELSE "none"]
    /\ cm' = [cm EXCEPT !.callOn = Current(cm)]
    /\ cmLast' = NoCall
    /\ UNCHANGED <<now, rlVars, envVars, cleared, manualOk, written, ifVars, exhausted,
                   served>>

\* the command succeeds, over the client it was issued on
CM_CallReplies ==
    /\ impl = "coordinator"
    /\ pending # NoPending
    /\ cm.callOn = Current(cm) /\ UsesRedis(cm) /\ cm.sock = "ok"
    /\ LET r == cmResume(pending, TRUE)
       IN  /\ cm' = [r.c EXCEPT !.callOn = 0]
           /\ redis' = r.redis
           /\ cmLast' = [op |-> pending.op, key |-> pending.key, val |-> pending.val,
                         ret |-> r.ret, path |-> "reply"]
    /\ pending' = NoPending
    /\ UNCHANGED <<now, rlVars, remoteUp, cleared, manualOk, written, ifVars, exhausted,
                   served>>

\* the command fails: the catch of the call runs
CM_CallThrows ==
    /\ impl = "coordinator"
    /\ pending # NoPending
    /\ LET r == cmCatch(cm, pending, now)
       IN  /\ cm' = [r.c EXCEPT !.callOn = 0]
           /\ cmLast' = [op |-> pending.op, key |-> pending.key, val |-> pending.val,
                         ret |-> r.ret, path |-> "failed"]
    /\ pending' = NoPending
    /\ UNCHANGED <<now, rlVars, envVars, cleared, manualOk, written, ifVars, exhausted,
                   served>>

\* close()
CM_Close ==
    /\ impl = "coordinator"
    /\ cm.started /\ ~cm.closed
    /\ pending = NoPending
    /\ cm' = cmClose(cm)
    /\ cmLast' = [NoCall EXCEPT !.op = "close"]
    /\ UNCHANGED <<now, rlVars, envVars, cleared, manualOk, written, ifVars, exhausted,
                   pending, served>>

\* RedisCache.close()
RC_Close ==
    /\ impl = "factory"
    /\ Kind = "redis" /\ ~rc.closed
    /\ rc' = rcClose(rc)
    /\ call' = [NoCall EXCEPT !.op = "close",
                              !.ret = IF rc'.closed THEN "undefined" ELSE "throws"]
    /\ UNCHANGED <<now, rlVars, envVars, cmVars, impl, lru, simple, lastSet, exhausted,
                   pending, served>>

LifecycleNext ==
    \/ CM_InitializeBegins
    \/ CM_RetryBegins
    \/ CM_ManualReconnectBegins
    \/ \E i \in 1..MaxMade, noisy \in BOOLEAN : CM_ConnectSettles(i, noisy)
    \/ CM_Lost
    \/ \E op \in CallOps, key \in ClientKeys, value \in ClientValues :
          CM_CallSent(op, key, value)
    \/ CM_CallReplies
    \/ CM_CallThrows
    \/ CM_Close
    \/ /\ impl = "factory" /\ ~rc.closed
       /\ \/ CreateCache
          \/ RC_ErrorEvent
          \/ RC_EndEvent
          \/ RC_ManualReconnect
          \/ RC_Close
    \/ /\ impl = "factory"
       /\ \E i \in 1..MaxTimers : RC_TimerFires(i)
    \/ RemoteDown
    \/ RemoteUp

(***************************************************************************)
(* The statistics of the cache createCache returned: get with the          *)
(* counting it does, among sets, the loss of the connection, and another   *)
(* client of the same Redis database storing a text of its own.            *)
(***************************************************************************)
MaxGets == 3

Stats_Get(key, ok) ==
    /\ Kind \in {"redis", "memory"}
    /\ rc.stats.total < MaxGets
    /\ ok \/ (Kind = "redis" /\ rc.isConnected)
    /\ ok => (Kind = "memory" \/ ~rc.isConnected \/ rc.sock = "ok")
    /\ LET r == rcGetCounted(rc, redis, key, now, ok)
           m == memGetCounted(rc.stats, lru, key, now)
       IN  /\ rc' = [rc EXCEPT !.stats = IF Kind = "redis" THEN r.stats ELSE m.stats]
           /\ lru' = IF Kind = "memory" THEN m.s ELSE lru
           /\ call' = [op |-> "get", key |-> key, val |-> "none", path |-> "none",
                       ret |-> IF Kind = "redis" THEN r.ret ELSE m.ret]
    /\ UNCHANGED <<now, rlVars, envVars, cmVars, impl, simple, lastSet, exhausted,
                   pending, served>>

\* another client of the database stores a text that is not JSON
Redis_ForeignWrite(key) ==
    /\ remoteUp
    /\ key \notin DOMAIN RedisLive(redis, now)
    /\ redis' = MapSet(RedisLive(redis, now), key, [val |-> Foreign, exp |-> Forever])
    /\ call' = NoCall
    /\ UNCHANGED <<now, rlVars, remoteUp, cmVars, impl, rc, lru, simple, lastSet,
                   exhausted, pending, served>>

StatsNext ==
    \/ CreateCache
    \/ \E key \in Keys, ok \in BOOLEAN : Stats_Get(key, ok)
    \/ \E key \in Keys, value \in Values : Cache_Set(key, value, 0)
    \/ \E key \in Keys : Redis_ForeignWrite(key)
    \/ RC_EndEvent
    \/ RemoteDown
    \/ RemoteUp
    \/ CacheTick

\* one call at a time, among the events, timers and reconnections of its client
CallsNext ==
    \/ \E op \in CallOps, key \in ClientKeys, value \in ClientValues :
          Call_Send(op, key, value)
    \/ Call_Reply
    \/ /\ impl = "coordinator"
       /\ \/ CM_Initialize
          \/ CM_TimerFires
          \/ CM_ErrorEvent
          \/ CM_EndEvent
          \/ CM_ManualReconnect
    \/ /\ impl = "factory"
       /\ \/ CreateCache
          \/ RC_ErrorEvent
          \/ RC_EndEvent
          \/ \E i \in 1..MaxTimers : RC_TimerFires(i)
          \/ RC_ManualReconnect
    \/ RemoteDown
    \/ RemoteUp
    \/ CacheTick

(***************************************************************************)
(* ApiService.handleApiRequest as a whole (src/logging/LogManager.js):     *)
(* the limiter, the cache lookup of a request for a specific image, the    *)
(* selection of the image, the cache write.  The service holds a           *)
(* RequestLimiter and the cache createCache returned.  What the file       *)
(* system and the image list answer are inputs: found (the image list,     *)
(* after its reload, has the image), existsAtHit and existsAtSelect (what  *)
(* cachedPathExists answers for the cached path and for the selected one). *)
(* served.ops lists what the handler did, in order.                        *)
(***************************************************************************)
RequestKinds == {"random", "specific"}

\* an isRandomRequest that would take every request for a specific one
isRandomRequest_never(kind) == FALSE

\* isRandomRequest: fewer than two path parts
isRandomRequest(kind) == kind = "random"

\* generateCacheKey: null for a random request, else api:<path>:json or :file
generateCacheKey(kind, isJson) ==
    IF isRandomRequest(kind) THEN "null"
    ELSE IF isJson THEN "api:/api/d/a.png:json" ELSE "api:/api/d/a.png:file"

\* the object handleApiRequest caches
cacheData == "imageInfo"

Api_Request(c, kind, isJson, found, existsAtHit, existsAtSelect) ==
    \E r \in {isAllowed(Limiter(windows, banList), c, now)} :
    \E g \in {getStatus(r.st, c, now)} :
    \E got \in {memGet(lru, generateCacheKey(kind, isJson), now)} :
        LET after == IF r.ret THEN r.st ELSE g.st
            isRandom == isRandomRequest(kind)
            cacheKey == generateCacheKey(kind, isJson)
            reads == r.ret /\ ~isRandom /\ cacheKey # "null"
            hit == reads /\ Truthy(got.ret)
            answered == hit /\ (isJson \/ existsAtHit)
            stale == hit /\ ~answered
            selects == r.ret /\ ~answered
            selected == selects /\ found /\ existsAtSelect
            writes == selected /\ ~isRandom /\ cacheKey # "null"
        IN  /\ Kind = "memory"
            /\ windows' = after.windows
            /\ banList' = after.banList
            /\ \E s1 \in {IF reads THEN got.s ELSE lru} :
               \E s2 \in {IF stale THEN memDel(s1, cacheKey).s ELSE s1} :
                  lru' = IF writes THEN memSet(s2, cacheKey, cacheData, 0, now).s ELSE s2
            /\ served' = [client |-> c, kind |-> kind, isJson |-> isJson,
                          ops |-> <<"isAllowed">>
                                  \o (IF reads THEN <<"get">> ELSE <<>>)
                                  \o (IF stale THEN <<"del">> ELSE <<>>)
                                  \o (IF selects THEN <<"select">> ELSE <<>>)
                                  \o (IF writes THEN <<"set">> ELSE <<>>),
                          cached |-> IF reads THEN got.ret ELSE "none",
                          response |-> IF ~r.ret THEN rejection(g.ret)
                                       ELSE IF answered THEN "hit"
                                       ELSE IF selected THEN "200" ELSE "404"]
            /\ UNCHANGED <<now, variant, ban_duration, last, owed, turnedAway, envVars, cmVars, impl, rc,
                           simple, call, lastSet, exhausted, pending>>

\* the clients that send requests to the service: one, so that the limiter
\* admits, bans and unbans while the cache fills and expires
ApiClients == {"c1"}

ApiNext ==
    \/ /\ \E c \in ApiClients, kind \in RequestKinds,
             isJson, found, existsAtHit, existsAtSelect \in BOOLEAN :
             Api_Request(c, kind, isJson, found, existsAtHit, existsAtSelect)
       /\ UNCHANGED admitted
    \/ Sweep /\ UNCHANGED admitted
    \/ Tick /\ UNCHANGED admitted

(***************************************************************************)
(* The specifications.                                                     *)
(***************************************************************************)
LimiterAtRest ==
    /\ variant = "class"
    /\ ban_duration = banDuration
    /\ admitted = [c \in Clients |-> <<>>]
    /\ windows = EmptyMap
    /\ banList = EmptyMap
    /\ last = NoRequest
    /\ owed = [c \in Clients |-> 0]
    /\ turnedAway = {}

CoordinatorAtRest ==
    /\ cm = CacheManagerNew
    /\ cmLast = NoCall
    /\ cleared = {}
    /\ manualOk = FALSE
    /\ written = [k \in Keys |-> "none"]

InterfaceAtRest ==
    /\ impl = "factory"
    /\ rc = RedisCacheNew(FALSE)
    /\ lru = <<>>
    /\ simple = EmptyMap
    /\ call = NoCall
    /\ lastSet = NoSet

EnvInit == remoteUp \in BOOLEAN /\ redis = EmptyMap /\ exhausted = FALSE /\ pending = NoPending
           /\ served = NoServed

Init == now = 0 /\ LimiterInit /\ remoteUp = TRUE /\ redis = EmptyMap /\ exhausted = FALSE /\ pending = NoPending
           /\ served = NoServed
        /\ CoordinatorAtRest /\ InterfaceAtRest

SpecLimiter == Init /\ [][LimiterNext]_vars

\* the limiter of a configuration with ban_duration = window_size
InitSliding ==
    /\ now = 0
    /\ variant \in {"class", "legacy"}
    /\ ban_duration = windowSize
    /\ admitted = [c \in Clients |-> <<>>]
    /\ windows = EmptyMap
    /\ banList = EmptyMap
    /\ last = NoRequest
    /\ owed = [c \in Clients |-> 0]
    /\ turnedAway = {}
    /\ EnvInit
    /\ remoteUp
    /\ CoordinatorAtRest
    /\ InterfaceAtRest

SpecSliding == InitSliding /\ [][SlidingNext]_vars

InitCoordinator == now = 0 /\ LimiterAtRest /\ EnvInit /\ CoordinatorInit /\ InterfaceAtRest

SpecCoordinator == InitCoordinator /\ [][CoordinatorNext]_vars

InitRedisCache == now = 0 /\ LimiterAtRest /\ EnvInit /\ CoordinatorAtRest /\ InterfaceInit

SpecRedisCache == InitRedisCache /\ [][RedisCacheNext]_vars

InitClients ==
    /\ now = 0
    /\ LimiterAtRest
    /\ EnvInit
    /\ CoordinatorAtRest
    /\ impl \in {"coordinator", "factory"}
    /\ rc \in IF impl = "factory"
             THEN {RedisCacheNew(useRedis) : useRedis \in BOOLEAN}
             ELSE {RedisCacheNew(TRUE)}
    /\ lru = <<>>
    /\ simple = EmptyMap
    /\ call = NoCall
    /\ lastSet = NoSet

SpecClients == InitClients /\ [][ClientsNext]_vars

\* node-redis emits 'error' on the client whose socket has broken; only
\* listeners attached to that client hear it
RC_LossReported ==
    /\ rc.listeners = "current"
    /\ rc.sock = "broken"
    /\ RC_ErrorEvent

SpecClientsFair ==
    /\ InitClients
    /\ [][ClientsNext]_vars
    /\ WF_vars(RC_LossReported)
    /\ WF_vars(CM_ErrorEvent)

\* the cache of createCache and its statistics
SpecStats == InitRedisCache /\ [][StatsNext]_vars

\* one client of either kind, from construction to close()
SpecLifecycle == InitClients /\ [][LifecycleNext]_vars

\* every Redis command is answered in the end, by a result or by an error
SpecCalls == InitClients /\ [][CallsNext]_vars /\ WF_vars(Call_Reply)

\* the service as app.js builds it: a RequestLimiter and the cache of
\* createCache(config, useRedis = false)
InitApi ==
    /\ now = 0
    /\ LimiterInit
    /\ variant = "class"
    /\ EnvInit
    /\ remoteUp
    /\ impl = "factory"
    /\ cm = CacheManagerNew
    /\ cmLast = NoCall
    /\ cleared = {}
    /\ manualOk = FALSE
    /\ written = [k \in Keys |-> "none"]
    /\ rc = [RedisCacheNew(FALSE) EXCEPT !.kind = "memory"]
    /\ lru = <<>>
    /\ simple = EmptyMap
    /\ call = NoCall
    /\ lastSet = NoSet

SpecApi == InitApi /\ [][ApiNext]_vars

\* a cache that never reaches Redis: the CacheManager has made its first, failed attempt
InitLocal ==
    /\ now = 0
    /\ LimiterAtRest
    /\ remoteUp = FALSE
    /\ redis = EmptyMap
    /\ exhausted = FALSE
    /\ pending = NoPending
    /\ served = NoServed
    /\ impl \in {"simple", "memory", "map"}
    /\ cm = IF impl = "map"
            THEN connectRedis([CacheManagerNew EXCEPT !.started = TRUE], FALSE)
            ELSE CacheManagerNew
    /\ cmLast = NoCall
    /\ cleared = {}
    /\ manualOk = FALSE
    /\ written = [k \in Keys |-> "none"]
    /\ rc = RedisCacheNew(FALSE)
    /\ lru = <<>>
    /\ simple = EmptyMap
    /\ call = NoCall
    /\ lastSet = NoSet

SpecLocal == InitLocal /\ [][LocalNext]_vars

(***************************************************************************)
(* C1.  A request of a client with no active ban, for which there is room  *)
(* in the table, is admitted and recorded when fewer than `limit` of its   *)
(* requests lie in the window; with `limit` of them in the window it is    *)
(* rejected and a ban is recorded from the instant of the request to that  *)
(* instant plus banDuration.                                               *)
(***************************************************************************)
C1_AdmitsExactlyTheLimit ==
    (last.client \in Clients /\ ~last.preActiveBan /\ ~last.preFull) =>
        IF last.preCount < limit
        THEN /\ last.ret
             /\ last.client \in DOMAIN windows
             /\ Len(windows[last.client]) = last.preCount + 1
             /\ last.client \notin DOMAIN banList
        ELSE /\ last.preCount = limit
             /\ ~last.ret
             /\ last.client \in DOMAIN banList
             /\ banList[last.client].startTime = last.at
             /\ banList[last.client].endTime = last.at + banDuration
             /\ last.client \notin DOMAIN windows

C1_Witness ==
    /\ last.client \in Clients
    /\ ~last.preActiveBan /\ ~last.preFull
    /\ last.preCount = limit
    /\ last.why = "limit"
    /\ last.client \in DOMAIN banList
    /\ banList[last.client].endTime = last.at + banDuration

(***************************************************************************)
(* C2 as claimed.  While a ban runs every request of the client is         *)
(* rejected as banned; its first request at or after the ban's end is      *)
(* admitted and leaves exactly one instant in its window.                  *)
(***************************************************************************)
C2_Original ==
    (last.client \in Clients /\ last.preOwed > 0) =>
        IF last.at < last.preOwed
        THEN ~last.ret /\ last.why = "banned"
        ELSE last.ret /\ last.client \in DOMAIN windows
             /\ windows[last.client] = <<last.at>>

(***************************************************************************)
(* C2 amended.  While a ban runs every request of the client is rejected   *)
(* as banned; its first request at or after the ban's end is admitted and  *)
(* leaves exactly one instant in its window, provided fewer than           *)
(* maxClients other clients are tracked at that instant; otherwise it is   *)
(* rejected as any new client is, with no ban and no window.               *)
(***************************************************************************)
C2_BanFairness ==
    (last.client \in Clients /\ last.preOwed > 0) =>
        IF last.at < last.preOwed
        THEN ~last.ret /\ last.why = "banned"
        ELSE IF ~last.preFull
             THEN last.ret /\ last.client \in DOMAIN windows
                  /\ windows[last.client] = <<last.at>>
             ELSE ~last.ret /\ last.why = "maxclients"
                  /\ last.client \notin DOMAIN banList
                  /\ last.client \notin DOMAIN windows

C2_Witness ==
    /\ last.client \in Clients
    /\ last.preOwed > 0
    /\ last.at >= last.preOwed
    /\ last.ret
    /\ windows[last.client] = <<last.at>>

(***************************************************************************)
(* C3.  A request of a client whose ban is active is rejected and leaves   *)
(* both tables as they were: the ban keeps its startTime and endTime, no   *)
(* window appears for the client, nothing of another client changes.       *)
(***************************************************************************)
C3_BannedRequestChangesNothing ==
    [][\A c \in Clients :
          (ActiveBan(c) /\ HandleApiRequest(c)) =>
              (windows' = windows /\ banList' = banList /\ ~last'.ret)]_vars

C3_Witness ==
    /\ last.client \in Clients
    /\ last.preActiveBan
    /\ ~last.ret
    /\ last.at > banList[last.client].startTime

C5_RejectionIsStructured ==
    (last.client \in Clients /\ ~last.ret) =>
        /\ last.response \in {"403", "429"}
        /\ (last.response = "403") <=> ActiveBan(last.client)

(***************************************************************************)
(* C6.  With Redis configured for use and unreachable, a get(k) that       *)
(* follows a set(k, v) before the entry's TTL has run out returns v, and   *)
(* the cache then reports that Redis is not connected.                     *)
(***************************************************************************)
C6_FallbackServesLocally ==
    (/\ rc.useRedis
     /\ call.op = "get"
     /\ call.key = lastSet.key
     /\ now < lastSet.at + OrElse(lastSet.ttl, cacheTtl))
        => (call.ret = lastSet.val /\ ~rc.isConnected)

(***************************************************************************)
(* C7.  Once the server is reachable again and manualReconnect has         *)
(* restored the connection, every set(k, v) is stored in Redis and not in  *)
(* the map; and the Redis database only ever changes by a set() storing    *)
(* its own key and value there, by del, by clear or by expiry: nothing     *)
(* written to the map during the fallback is copied to Redis.              *)
(***************************************************************************)
C7_ReconnectedSetsGoRemote ==
    /\ [](manualOk /\ cmLast.op = "set"
            => /\ cmLast.path = "redis"
               /\ cmLast.key \in DOMAIN redis
               /\ redis[cmLast.key].val = JSONstringify(cmLast.val)
               /\ cmLast.key \notin DOMAIN cm.mapCache)
    /\ [][\A k \in Keys :
            (k \in DOMAIN redis' /\ (k \notin DOMAIN redis \/ redis'[k] # redis[k]))
                => /\ cmLast'.op = "set"
                   /\ cmLast'.key = k
                   /\ cmLast'.path = "redis"
                   /\ redis'[k].val = JSONstringify(cmLast'.val)]_vars

\* a set stored in Redis after a manual reconnect ended an outage
C7_Witness ==
    /\ manualOk
    /\ cmLast.op = "set"
    /\ cmLast.path = "redis"
    /\ cmLast.key \in DOMAIN redis

(***************************************************************************)
(* C8.  After clear(), get(k) finds nothing for any key k set before the   *)
(* clear and not set again since.                                          *)
(***************************************************************************)
C8_ClearRemovesEverything ==
    (cmLast.op = "get" /\ cmLast.key \in cleared) => cmLast.ret = "null"

(***************************************************************************)
(* C9.  In a local cache, after set(k, v, ttl) with ttl > 0, a get(k)      *)
(* fewer than ttl seconds later returns v, and a get(k) ttl seconds later  *)
(* or more finds nothing.                                                  *)
(***************************************************************************)
C9_LocalTtl ==
    (call.op = "get" /\ call.key = lastSet.key /\ lastSet.ttl > 0)
        => IF now < lastSet.at + lastSet.ttl
           THEN call.ret = lastSet.val
           ELSE call.ret = "null"

(***************************************************************************)
(* C10.  The timer for the n-th consecutive retry is set to                *)
(* retryInterval * 1.5^(n-1) milliseconds, and there is no retry beyond    *)
(* maxRetries.                                                             *)
(***************************************************************************)
C10_BackoffDelays ==
    /\ cm.retryCount <= maxRetries
    /\ cm.retryTimeout # NoTimer =>
          cm.retryTimeout.num * Pow(2, cm.retryCount - 1)
              = retryInterval * Pow(3, cm.retryCount - 1) * cm.retryTimeout.den

(***************************************************************************)
(* C11.  In every reachable state of either Redis client, retryCount is    *)
(* at least 0 and at most maxRetries.                                      *)
(***************************************************************************)
C11_RetryCountBounded ==
    /\ cm.retryCount \in 0..maxRetries
    /\ rc.retryCount \in 0..maxRetries

\* a client that has counted up to maxRetries and used up its retries
C11_Witness ==
    /\ exhausted
    /\ (cm.retryCount = maxRetries \/ rc.retryCount = maxRetries)

(***************************************************************************)
(* C12.  Once a client has used up its retries (retryCount at maxRetries   *)
(* and no timer left), and until manualReconnect is called, it has no      *)
(* retry timer pending and is not connected, whatever errors, timers,      *)
(* cache calls or resetRetryCount calls follow.                            *)
(***************************************************************************)
C12_ExhaustedStaysIdle ==
    exhausted =>
        /\ rc.timers = <<>>
        /\ ~rc.isConnected
        /\ cm.retryTimeout = NoTimer
        /\ ~cm.isRedisConnected

(***************************************************************************)
(* C13.  When manualReconnect returns, no retry timer set before it is     *)
(* still pending, and the attempt it made started from retryCount 0: the   *)
(* count is 0 after a success and counts only that one failure otherwise.  *)
(***************************************************************************)
C13_ManualReconnectStartsAfresh ==
    /\ call.op = "manualReconnect" => (rc.timers = <<>> /\ rc.retryCount = 0)
    /\ cmLast.op = "manualReconnect" =>
          IF cm.isRedisConnected
          THEN cm.retryCount = 0 /\ cm.retryTimeout = NoTimer
          ELSE cm.retryCount = 1

(***************************************************************************)
(* C14.  No cache call and no manual reconnect throws to its caller,       *)
(* whether or not the Redis server can be reached.                         *)
(***************************************************************************)
C14_NothingThrows ==
    /\ call.ret # "throws"
    /\ cmLast.ret # "throws"

(***************************************************************************)
(* C15.  Whenever a client holds a connection whose socket has broken,     *)
(* the first time or after any number of automatic reconnections, it       *)
(* comes to report itself not connected (unless the connection is          *)
(* re-established first).                                                  *)
(***************************************************************************)
C15_LossDetectedAgain ==
    /\ (rc.isConnected /\ rc.sock = "broken" /\ ~remoteUp)
          ~> (remoteUp \/ ~rc.isConnected)
    /\ (cm.isRedisConnected /\ cm.sock = "broken")
          ~> (cm.sock = "ok" \/ ~cm.isRedisConnected)

(***************************************************************************)
(* C16.  A get(k) of the CacheManager returns either nothing or the value  *)
(* of the latest set(k, v) that returned before it, never a value that a   *)
(* later set of the same key has overwritten, whatever losses and          *)
(* recoveries of Redis happen in between.                                  *)
(***************************************************************************)
C16_GetNeverReturnsOverwritten ==
    cmLast.op = "get" => cmLast.ret \in {"null", written[cmLast.key]}

(***************************************************************************)
(* C17.  In a local cache, a call on a key whose entry is still held but   *)
(* past its expiry answers as it does for a key that was never set: get    *)
(* returns null, getTTL returns what it returns for a missing key, del     *)
(* returns what it returns for a missing key, and expire returns false     *)
(* and leaves the key unreadable.                                          *)
(***************************************************************************)
PastExpiry(k) ==
    CASE Kind = "simple" -> k \in DOMAIN simple /\ now >= simple[k].exp
      [] Kind = "memory" -> lruHolds(lru, k) /\ lruIsStale(lruEntry(lru, k), now)
      [] Kind = "map" -> k \in DOMAIN cm.mapCache /\ now >= cm.mapCache[k].exp
      [] OTHER -> FALSE

\* what each call answers for a key that is not in the cache
Missing(op) ==
    CASE op = "get" -> "null"
      [] op = "getTTL" -> ToString(IF Kind = "simple" THEN simpleGetTTL(EmptyMap, "k1", 0)
                                   ELSE memGetTTL(<<>>, "k1", 0))
      [] op = "del" -> IF Kind = "simple" THEN simpleDel(EmptyMap, "k1").ret
                       ELSE IF Kind = "memory" THEN memDel(<<>>, "k1").ret
                       ELSE "false"
      [] op = "expire" -> "false"

Readable(k) ==
    CASE Kind = "simple" -> simpleGet(simple, k, now).ret # "null"
      [] Kind = "memory" -> lruHas(lru, k, now)
      [] OTHER -> mapGet(cm, k, now).ret # "null"

C17_ExpiredIsAbsent ==
    [][\A k \in LocalKeys :
          (PastExpiry(k) /\ call'.key = k /\ call'.op \in {"get", "getTTL", "del", "expire"})
              => (call'.ret = Missing(call'.op) /\ ~Readable(k)')]_vars

(***************************************************************************)
(* C18.  MemoryCache never holds more than lruMax entries, whatever calls  *)
(* are made; a set of a new key while it is full removes exactly the       *)
(* least recently used entry, stale or not, and a key that has just been   *)
(* read, written or given a new expiry is the most recently used one.      *)
(***************************************************************************)
lruKeys(S) == {S[i].key : i \in 1..Len(S)}

C19_EveryEntryExpires ==
    /\ \A k \in DOMAIN redis : redis[k].exp # Forever
    /\ \A k \in DOMAIN cm.mapCache : cm.mapCache[k].exp > 0
    /\ \A k \in DOMAIN simple : simple[k].exp > 0
    /\ \A i \in 1..Len(lru) : lru[i].ttl > 0

(***************************************************************************)
(* C20.  createCache returns a cache in every case.  With useRedis false   *)
(* it is a MemoryCache and no connection to Redis has been attempted or    *)
(* is ever held; with useRedis true it is the RedisCache, connected, if    *)
(* the server answered the first attempt, and otherwise an empty           *)
(* MemoryCache; the MemoryCache it returns accepts set.                    *)
(***************************************************************************)
C20_CreateCacheAlwaysReturns ==
    /\ rc.kind # "none" =>
          /\ rc.kind \in {"redis", "memory"}
          /\ rc.kind = "redis" => rc.useRedis
          /\ ~rc.useRedis =>
                (rc.sock = "none" /\ ~rc.isConnected /\ rc.listeners = "none"
                    /\ rc.timers = <<>>)
          /\ (rc.kind = "memory" /\ call.op = "set") => call.ret = "true"
    /\ call.op = "createCache" =>
          /\ call.ret = rc.kind
          /\ rc.kind = "redis" <=> (rc.useRedis /\ remoteUp)
          /\ rc.kind = "redis" =>
                (rc.isConnected /\ rc.sock = "ok" /\ rc.listeners = "current")
          /\ rc.kind = "memory" => (lru = <<>> /\ ~rc.isConnected /\ rc.timers = <<>>)

\* Redis was asked for and did not answer: createCache has fallen back
C20_Witness ==
    /\ call.op = "createCache"
    /\ rc.useRedis
    /\ ~remoteUp
    /\ rc.kind = "memory"

CM_Attempts ==
    /\ cacheEnabled
    /\ \/ (CM_Initialize \/ CM_TimerFires) /\ cm.retryCount < maxRetries
       \/ CM_ManualReconnect

\* a step in which a RedisCache makes a connection attempt
RC_Attempts ==
    \/ CreateCache /\ rc.useRedis
    \/ \E i \in 1..MaxTimers : RC_TimerFires(i)
    \/ RC_ManualReconnect

\* C23: every connection attempt (the initial one, one started by a retry
\* timer, one started by manualReconnect) ends either connected with
\* retryCount = 0, or not connected with a retry timer scheduled unless the
\* retries are used up.
C23_AttemptEndsConnectedOrScheduled ==
    [][/\ CM_Attempts =>
            \/ cm'.isRedisConnected /\ cm'.retryCount = 0
            \/ /\ ~cm'.isRedisConnected
               /\ cm'.retryTimeout # NoTimer \/ cm'.retryCount >= maxRetries
       /\ RC_Attempts =>
            \/ rc'.isConnected /\ rc'.retryCount = 0
            \/ /\ ~rc'.isConnected
               /\ rc'.timers # <<>> \/ rc'.retryCount >= maxRetries]_vars


\* a get or set of the coordinator whose Redis command fails
CM_CallFails ==
    /\ UsesRedis(cm)
    /\ cm.sock = "broken"
    /\ \E key \in ClientKeys, value \in ClientValues, ttl \in TtlArgs :
          CM_Get(key) \/ CM_Set(key, value, ttl)

\* a get or set of a RedisCache whose Redis command fails
RC_CallFails ==
    /\ Kind = "redis"
    /\ rc.isConnected
    /\ rc.sock = "broken"
    /\ \E key \in ClientKeys, value \in ClientValues, ttl \in FactoryTtls :
          Cache_Get(key) \/ Cache_Set(key, value, ttl)

\* C24: a get or set that fails at its Redis command while the client is
\* connected marks the client not connected and schedules a retry (unless the
\* retries are used up); the failing set lands in the local cache; the calls
\* after it do not go to Redis.
C24_FailedCallDisconnects ==
    [][/\ CM_CallFails =>
            /\ ~cm'.isRedisConnected
            /\ cm'.retryTimeout # NoTimer \/ cm'.retryCount >= maxRetries
            /\ cmLast'.op = "set" => cmLast'.key \in DOMAIN cm'.mapCache
       /\ RC_CallFails =>
            /\ ~rc'.isConnected
            /\ rc'.timers # <<>> \/ rc'.retryCount >= maxRetries]_vars


\* C25: at most one retry timer is outstanding for a client at any instant.
\* (The coordinator clears retryTimeout before it sets it and so holds one
\* timer by construction; a RedisCache keeps every timer it has started.)
C25_OneRetryTimer == Len(rc.timers) <= 1


\* the clients a sweep at `now` has reason to keep: a recent instant, no
\* expired ban
Eligible ==
    {c \in DOMAIN windows :
        /\ FilterRecent(windows[c], now - windowSize) # <<>>
        /\ ~(c \in DOMAIN banList /\ now >= banList[c].endTime)}

\* C26: right after the sweep at instant now, no window holds an instant at or
\* before now - windowSize, no ban has endTime <= now, a client whose ban the
\* sweep removed has no window, at most maxClients clients are tracked, and a
\* client is dropped for capacity only in favour of clients whose last instant
\* is at least as recent.
C26_AfterSweep ==
    [][Sweep =>
         /\ \A c \in DOMAIN windows' : \A i \in DOMAIN windows'[c] :
                windows'[c][i] > now - windowSize
         /\ \A c \in DOMAIN banList' : banList'[c].endTime > now
         /\ \A c \in (DOMAIN banList) \ (DOMAIN banList') : c \notin DOMAIN windows'
         /\ Cardinality(DOMAIN windows') <= maxClients
         /\ DOMAIN windows' \subseteq Eligible
         /\ Eligible \ (DOMAIN windows') # {} => Cardinality(DOMAIN windows') = maxClients
         /\ \A k \in DOMAIN windows', d \in Eligible \ (DOMAIN windows') :
                MaxOf(windows'[k]) >= MaxOf(windows[d])]_vars

\* a sweep has removed the expired ban of a client that made no request since
\* the ban ran out, and instants are still tracked
C26_Witness ==
    /\ last = NoRequest
    /\ windows # EmptyMap
    /\ \E c \in Clients : owed[c] > 0 /\ now >= owed[c] /\ c \notin DOMAIN banList


\* C27: right after an isAllowed call at instant now, every instant in the
\* caller's window lies in (now - windowSize, now]; the instants of a window
\* are in non-decreasing order; no window is stored empty.
C27_WindowWithinRange ==
    /\ \A c \in DOMAIN windows :
          /\ windows[c] # <<>>
          /\ \A i, j \in DOMAIN windows[c] : i <= j => windows[c][i] <= windows[c][j]
    /\ last.client \in DOMAIN windows =>
          \A i \in DOMAIN windows[last.client] :
             /\ windows[last.client][i] > now - windowSize
             /\ windows[last.client][i] <= now

\* an admitted request at the end of the clock whose window holds one instant
\* only, the client's earlier instants having left the window
C27_Witness ==
    /\ last.ret
    /\ last.client \in DOMAIN windows
    /\ now > windowSize
    /\ windows[last.client] = <<now>>
    /\ last.preCount = 0
    /\ \E d \in DOMAIN windows : d # last.client /\ Len(windows[d]) = 2


\* C28: in every state no client has both a ban record and a window; the
\* request that is banned leaves its client without a window; and when a ban
\* record is removed, by a request or by the sweep, the client keeps no instant
\* from before the removal.
C28_BanExcludesWindow ==
    /\ [](/\ (DOMAIN windows) \cap (DOMAIN banList) = {}
          /\ last.why = "limit" =>
                last.client \in DOMAIN banList /\ last.client \notin DOMAIN windows)
    /\ [][\A c \in (DOMAIN banList) \ (DOMAIN banList') :
             c \in DOMAIN windows' => windows'[c] = <<now>>]_vars

\* a request has been banned while other clients are tracked and the ban of
\* another client has run out and been removed
C28_Witness ==
    /\ last.why = "limit"
    /\ last.client \in DOMAIN banList
    /\ windows # EmptyMap
    /\ \E e \in Clients : e \notin DOMAIN banList /\ owed[e] > 0


\* what getStatus(c), called in the current state, returns
StatusOf(c) == getStatus(Limiter(windows, banList), c, now).ret

\* C30: getStatus returns a record for the client it is asked about (here the
\* client of the request just rejected, for whom the handler calls it): with an
\* active ban, banned and a remaining ban time of at least one unit; otherwise
\* not banned, remaining = max(0, limit - n) for the n instants newer than
\* now - windowSize, and a reset that is a finite number between 0 and
\* windowSize.
C30_StatusAlwaysARecord ==
    \A c \in Clients :
        (last.client = c /\ ~last.ret) =>
            /\ StatusOf(c).kind = "status"
            /\ ActiveBan(c) => StatusOf(c).banned /\ StatusOf(c).remainingMs >= 1
            /\ ~ActiveBan(c) =>
                  /\ ~StatusOf(c).banned
                  /\ StatusOf(c).remaining =
                        (IF limit > RecentCount(c) THEN limit - RecentCount(c) ELSE 0)
                  /\ StatusOf(c).resetMs \in {ToString(n) : n \in 0..windowSize}


\* the last request did op / did a before b
Did(op) == \E i \in DOMAIN served.ops : served.ops[i] = op

DidBefore(a, b) ==
    \E i, j \in DOMAIN served.ops : i < j /\ served.ops[i] = a /\ served.ops[j] = b

Rejected == served.response \in {"403", "429", "TypeError"}

\* what C29 says of every request but its clause on the cache write
C29_Order ==
    served.client # "none" =>
        /\ served.ops[1] = "isAllowed"
        /\ Rejected => served.ops = <<"isAllowed">>
        /\ served.kind = "random" => ~Did("get") /\ ~Did("set") /\ ~Did("del")
        /\ (served.kind = "specific" /\ ~Rejected) => Did("get")
        /\ Did("select") => (served.kind = "specific" => DidBefore("get", "select"))
        /\ Did("set") => DidBefore("get", "set") /\ DidBefore("select", "set")

\* C29: the limiter decides before any cache operation; a rejected request
\* does no cache operation; an admitted request for a specific image reads the
\* cache before it selects the image; a random request never touches the
\* cache; and the cache is written only when the request was not answered from
\* it: after a miss, or after a hit whose file is gone and whose entry the
\* request has deleted first.
C29_LimiterThenCache ==
    /\ C29_Order
    /\ Did("set") => served.cached = "null" \/ DidBefore("del", "set")

\* C29 as stated: the cache is written only after a miss
C29_Original ==
    /\ C29_Order
    /\ Did("set") => served.cached = "null"

\* a request for a specific image found its entry, not the file, deleted the
\* entry, selected the image anew and cached it
C29_Witness ==
    /\ served.kind = "specific"
    /\ served.cached # "null"
    /\ served.ops = <<"isAllowed", "get", "del", "select", "set">>


\* C31: with ban_duration >= windowSize, at every instant the requests of a
\* client admitted in the trailing interval (now - windowSize, now] are at most
\* limit, whatever requests, bans, ban expiries and sweeps interleave.
C31_SlidingWindowBound ==
    /\ ban_duration >= windowSize
    /\ \A c \in Clients :
          /\ Len(admitted[c]) <= limit
          /\ \A i \in DOMAIN admitted[c] :
                admitted[c][i] > now - windowSize /\ admitted[c][i] <= now

\* a client is admitted again at the instant its ban runs out, none of its
\* earlier admitted requests being recent any more, while another client has
\* used its limit
C31_Witness ==
    /\ last.ret
    /\ last.preOwed > 0
    /\ now = last.preOwed
    /\ admitted[last.client] = <<now>>
    /\ \E d \in Clients : d # last.client /\ Len(admitted[d]) = limit


\* C32: at most maxClients windows are tracked in every state, and so the
\* sweep drops no client for capacity: after it, every client with a recent
\* instant and no expired ban is still tracked.
C32_NeverOverCapacity ==
    /\ [](Cardinality(DOMAIN windows) <= maxClients)
    /\ [][Sweep => DOMAIN windows' = Eligible]_vars

\* the table is full and a new client has just been refused for it
C32_Witness ==
    /\ Cardinality(DOMAIN windows) = maxClients
    /\ last.why = "maxclients"
    /\ last.client \notin DOMAIN windows


\* the instants of b's window that are still inside the window at `now`
RecentOf(w, b) == IF b \in DOMAIN w THEN FilterRecent(w[b], now - windowSize) ELSE <<>>

\* C33: a request of client A leaves the ban record of every other client B as
\* it was (none created, none removed, none changed) and keeps every instant of
\* B's window that is still inside the window.
C33_RequestLeavesOthersAlone ==
    [][last'.client # "none" =>
         \A b \in Clients \ {last'.client} :
            /\ (b \in DOMAIN banList') = (b \in DOMAIN banList)
            /\ b \in DOMAIN banList => banList'[b] = banList[b]
            /\ RecentOf(windows', b) = RecentOf(windows, b)]_vars

\* after a request of one client, the ban record of another, already run out,
\* is still there, and a third client's window holds a recent instant
C33_Witness ==
    /\ last.client # "none"
    /\ \E b \in DOMAIN banList : b # last.client /\ now >= banList[b].endTime
    /\ \E d \in DOMAIN windows : d # last.client /\ RecentOf(windows, d) # <<>>


\* C34: while the CacheManager is connected and not reconnecting its map is
\* empty; a step that writes the map ends not connected; and a get answered
\* while connected is answered from Redis.
C34_MapEmptyWhileConnected ==
    /\ []((cm.isRedisConnected /\ ~cm.isReconnecting) => cm.mapCache = EmptyMap)
    /\ []((cmLast.op = "get" /\ cmLast.ret # "null" /\ cm.isRedisConnected)
            => cmLast.path = "redis")
    /\ [][(\E k \in DOMAIN cm'.mapCache :
              k \notin DOMAIN cm.mapCache \/ cm'.mapCache[k] # cm.mapCache[k])
           => ~cm'.isRedisConnected]_vars

\* a manual reconnect has just restored the connection: the map is empty
\* although a set of a key that is not in Redis has returned and nothing has
\* expired or been cleared
C34_Witness ==
    /\ cmLast.op = "manualReconnect"
    /\ cm.isRedisConnected
    /\ cm.mapCache = EmptyMap
    /\ now = 0
    /\ cleared = {}
    /\ \E k \in Keys : written[k] # "none" /\ k \notin DOMAIN redis

(***************************************************************************)
(* C35: CacheManager never has two connection attempts in flight at once:  *)
(* at every moment at most one of the clients it has created has a         *)
(* connect() that has not settled, whatever events, timers,                *)
(* resetRetryCount or manualReconnect occur during an attempt.             *)
(***************************************************************************)
C35_OneAttemptInFlight == Cardinality(cm.flight) <= 1

(***************************************************************************)
(* C36: in CacheManager, when a get, set, del or clear fails that was      *)
(* issued on a client which has since been replaced, the newer healthy     *)
(* connection stays: the coordinator is still connected and still holds    *)
(* the same client.                                                        *)
(***************************************************************************)
C36_StaleFailureSparesNewConnection ==
    [][(/\ pending # NoPending /\ pending' = NoPending
        /\ cmLast'.path = "failed"
        /\ cm.callOn # Current(cm)
        /\ cm.isRedisConnected /\ Current(cm) # 0 /\ cm.sock = "ok")
       => (cm'.isRedisConnected /\ Current(cm') = Current(cm))]_vars

(***************************************************************************)
(* C37: one failure consumes at most one retry.  When a connect() of       *)
(* CacheManager settles, by an error event, a rejection or both,           *)
(* retryCount grows by at most one; and while a retry of RedisCache is     *)
(* already pending, a step that schedules a further timer without any      *)
(* attempt having been made (a further error event of the same lost        *)
(* connection) does not advance retryCount.                                *)
(***************************************************************************)
C37_OneRetryPerFailure ==
    [][/\ cmLast'.op = "settle"
            => cm'.retryCount <= cm.retryCount + 1
       /\ (rc.timers # <<>> /\ Len(rc'.timers) > Len(rc.timers))
            => rc'.retryCount <= rc.retryCount]_vars

(***************************************************************************)
(* C38: once close() has returned, no retry timer and no cleanup interval  *)
(* of that cache is pending, and from then on no client is created and no  *)
(* timer is set, also when close() was called during a connection attempt  *)
(* or after several retries were scheduled.                                *)
(***************************************************************************)
C38_NothingPendingAfterClose ==
    /\ [](cm.closed => cm.retryTimeout = NoTimer /\ ~cm.cleanupInterval)
    /\ [](rc.closed => rc.timers = <<>>)
    /\ [][(cm.closed => cm'.made = cm.made)
          /\ (rc.closed => Len(rc'.timers) <= Len(rc.timers))]_vars

(***************************************************************************)
(* C39: the statistics of a cache always satisfy hits + misses = total,    *)
(* and every get call adds exactly one to total: one to hits when it       *)
(* returns a value, one to misses when it returns absent, whether the      *)
(* remote call succeeds or fails and whether the stored text decodes.      *)
(***************************************************************************)
C39_StatsCountEveryGetOnce ==
    /\ [](rc.stats.hits + rc.stats.misses = rc.stats.total)
    /\ [][call'.op = "get"
            => /\ rc'.stats.total = rc.stats.total + 1
               /\ rc'.stats.hits = rc.stats.hits + (IF call'.ret # "null" THEN 1 ELSE 0)
               /\ rc'.stats.misses = rc.stats.misses + (IF call'.ret = "null" THEN 1 ELSE 0)]_vars

====
